---- MODULE Spec2Model ----
(***************************************************************************)
(* Knowledge graph engine of the YouTube study app.                        *)
(*                                                                         *)
(*   KnowledgeGraphService  backend/src/services/llm.service.js 264-651    *)
(*   graph routes           backend/src/routes/graph.routes.js            *)
(*   RAGService             unnamed/part_005                               *)
(*                                                                         *)
(* Texts are TLA+ strings handled character by character.  A JavaScript    *)
(* number that is a ratio of integers is kept as [num, den].               *)
(***************************************************************************)
EXTENDS Integers, Sequences, FiniteSets, TLC

(***************************************************************************)
(* Bounds of the model                                                     *)
(***************************************************************************)
\* number of video rows the store can hold
MaxVideos == 2
\* longest keyPoints list of a well-formed summary
MaxKeyPoints == 2

(***************************************************************************)
(* JavaScript string primitives                                            *)
(***************************************************************************)
UpperAlpha == "ABCDEFGHIJKLMNOPQRSTUVWXYZ"
LowerAlpha == "abcdefghijklmnopqrstuvwxyz"
Digits == "0123456789"

CharAt(s, i) == SubSeq(s, i, i)

CharsOf(s) == {CharAt(s, i) : i \in 1..Len(s)}

UpperSet == CharsOf(UpperAlpha)
LowerSet == CharsOf(LowerAlpha)
DigitSet == CharsOf(Digits)

LowerOf == [c \in UpperSet |->
              CharAt(LowerAlpha, CHOOSE i \in 1..26 : CharAt(UpperAlpha, i) = c)]
UpperOf == [c \in LowerSet |->
              CharAt(UpperAlpha, CHOOSE i \in 1..26 : CharAt(LowerAlpha, i) = c)]

\* String.prototype.toLowerCase / toUpperCase
RECURSIVE toLowerCase(_)
toLowerCase(s) ==
    IF s = "" THEN ""
    ELSE (IF Head(s) \in UpperSet THEN LowerOf[Head(s)] ELSE Head(s))
             \o toLowerCase(Tail(s))

RECURSIVE toUpperCase(_)
toUpperCase(s) ==
    IF s = "" THEN ""
    ELSE (IF Head(s) \in LowerSet THEN UpperOf[Head(s)] ELSE Head(s))
             \o toUpperCase(Tail(s))

\* the regular expression classes \w and \s
IsWordChar(c) == c \in UpperSet \cup LowerSet \cup DigitSet \cup {"_"}
IsSpace(c) == c = " "

\* String.prototype.includes
includes(hay, needle) ==
    \E i \in 0..(Len(hay) - Len(needle)) : SubSeq(hay, i + 1, i + Len(needle)) = needle

\* s.replace(/[^\w\s]/g, '')
RECURSIVE stripNonWord(_)
stripNonWord(s) ==
    IF s = "" THEN ""
    ELSE (IF IsWordChar(Head(s)) \/ IsSpace(Head(s)) THEN Head(s) ELSE "")
             \o stripNonWord(Tail(s))

\* s.split(/\s+/): a run of white space is one separator; white space at either
\* end leaves an empty first or last field, and "" splits into <<"">>
RECURSIVE splitFrom(_, _, _)
splitFrom(s, i, cur) ==
    IF i > Len(s) THEN <<cur>>
    ELSE IF IsSpace(CharAt(s, i))
         THEN IF i > 1 /\ IsSpace(CharAt(s, i - 1))
              THEN splitFrom(s, i + 1, cur)
              ELSE <<cur>> \o splitFrom(s, i + 1, "")
         ELSE splitFrom(s, i + 1, cur \o CharAt(s, i))

splitWhitespace(s) == splitFrom(s, 1, "")

\* s.split(' '): every single blank separates
RECURSIVE splitBlankFrom(_, _, _)
splitBlankFrom(s, i, cur) ==
    IF i > Len(s) THEN <<cur>>
    ELSE IF CharAt(s, i) = " "
         THEN <<cur>> \o splitBlankFrom(s, i + 1, "")
         ELSE splitBlankFrom(s, i + 1, cur \o CharAt(s, i))

splitBlank(s) == splitBlankFrom(s, 1, "")

\* Array.prototype.join
RECURSIVE join(_, _)
join(list, sep) ==
    IF list = <<>> THEN ""
    ELSE IF Len(list) = 1 THEN list[1]
    ELSE list[1] \o sep \o join(Tail(list), sep)

\* s.replace(/\s+/g, '_')
RECURSIVE underscoreBlanks(_, _)
underscoreBlanks(s, i) ==
    IF i > Len(s) THEN ""
    ELSE IF IsSpace(CharAt(s, i))
         THEN (IF i > 1 /\ IsSpace(CharAt(s, i - 1)) THEN "" ELSE "_")
                  \o underscoreBlanks(s, i + 1)
         ELSE CharAt(s, i) \o underscoreBlanks(s, i + 1)

\* word.charAt(0).toUpperCase() + word.slice(1)
capitalizeWord(w) ==
    IF w = "" THEN "" ELSE toUpperCase(CharAt(w, 1)) \o SubSeq(w, 2, Len(w))

\* the regular expressions of isSignificantPhrase
\* /\d+\.\d+/
matchesVersionNumber(s) ==
    \E i \in 2..(Len(s) - 1) :
        /\ CharAt(s, i) = "."
        /\ CharAt(s, i - 1) \in DigitSet
        /\ CharAt(s, i + 1) \in DigitSet
\* /[A-Z]{2,}/
matchesAcronym(s) ==
    \E i \in 1..(Len(s) - 1) : CharAt(s, i) \in UpperSet /\ CharAt(s, i + 1) \in UpperSet
\* /api|sdk|llm|ai|ml/i
TechnicalStems == {"api", "sdk", "llm", "ai", "ml"}
matchesTechnicalStem(s) == \E stem \in TechnicalStems : includes(toLowerCase(s), stem)


RECURSIVE Flatten(_)
Flatten(ss) == IF ss = <<>> THEN <<>> ELSE Head(ss) \o Flatten(Tail(ss))

Range(f) == {f[i] : i \in DOMAIN f}

(***************************************************************************)
(* Stored summaries.  The summaryJson column holds JSON text or NULL; the  *)
(* text is kept as what JSON.parse makes of it.  A keyPoints value is      *)
(* absent, a list, or a value of another JSON type; a list item is a       *)
(* string or a value of another type.                                      *)
(***************************************************************************)
StrItem(t) == [isString |-> TRUE, text |-> t]
\* the number 1 as a list item
NumItem == [isString |-> FALSE, text |-> "1"]

NoKeyPoints == [kind |-> "absent", items |-> <<>>, text |-> ""]
KeyPointList(items) == [kind |-> "list", items |-> items, text |-> ""]
KeyPointString(t) == [kind |-> "string", items |-> <<>>, text |-> t]
KeyPointObject == [kind |-> "object", items |-> <<>>, text |-> ""]

\* the JavaScript truth value of a keyPoints value, and its .length
\* (-1 stands for undefined, for which every comparison "> 0" is false)
kpTruthy(kp) == CASE kp.kind = "absent" -> FALSE
                  [] kp.kind = "string" -> kp.text # ""
                  [] OTHER -> TRUE
kpLength(kp) == CASE kp.kind = "list" -> Len(kp.items)
                  [] kp.kind = "string" -> Len(kp.text)
                  [] OTHER -> -1

JsonNull == [kind |-> "null", keyPoints |-> NoKeyPoints]
JsonObject(kp) == [kind |-> "object", keyPoints |-> kp]

\* the column: SQL NULL, text JSON.parse accepts, text it rejects
SqlNull == [form |-> "null", parses |-> FALSE, value |-> JsonNull]
JsonText(v) == [form |-> "string", parses |-> TRUE, value |-> v]
BadText == [form |-> "string", parses |-> FALSE, value |-> JsonNull]
\* a summary handed over already parsed (typeof summaryJson !== 'string')
Parsed(v) == [form |-> "value", parses |-> TRUE, value |-> v]

\* the JavaScript truth value of a summaryJson: a text, or a value but null
summaryTruthy(s) == s.form = "string" \/ (s.form = "value" /\ s.value.kind # "null")

\* a transcription column: NULL or a text
NullText == [isNull |-> TRUE, text |-> ""]
Text(t) == [isNull |-> FALSE, text |-> t]

(***************************************************************************)
(* KnowledgeGraphService                                                   *)
(***************************************************************************)
entityTypes == [CONCEPT |-> "concept", TECHNOLOGY |-> "technology",
                PERSON |-> "person", ORGANIZATION |-> "organization",
                FEATURE |-> "feature", TOOL |-> "tool"]

stopWords == {"the", "a", "an", "and", "or", "but", "in", "on", "at", "to", "for",
              "of", "with", "by", "from", "as", "is", "are", "was", "were", "been",
              "be", "have", "has", "had", "do", "does", "did", "will", "would",
              "should", "could", "may", "might", "can", "this", "that", "these",
              "those", "it", "its", "they", "their", "them"}

\* detectEntityType with the feature indicators tested before the technology
\* indicators
detectEntityType_featureFirst(phrase, context) ==
    LET lowerPhrase == toLowerCase(phrase)
        lowerContext == toLowerCase(context)
    IN  IF \/ includes(lowerContext, "feature")
           \/ includes(lowerContext, "capability")
           \/ includes(lowerContext, "functionality")
           \/ includes(lowerContext, "mode")
        THEN entityTypes.FEATURE
        ELSE IF \/ includes(lowerContext, "version")
                \/ includes(lowerContext, "update")
                \/ includes(lowerContext, "release")
                \/ includes(lowerPhrase, "ai")
                \/ includes(lowerPhrase, "model")
                \/ includes(lowerPhrase, "api")
        THEN entityTypes.TECHNOLOGY
        ELSE IF \/ includes(lowerContext, "tool")
                \/ includes(lowerContext, "platform")
                \/ includes(lowerContext, "service")
                \/ includes(lowerContext, "application")
        THEN entityTypes.TOOL
        ELSE IF \/ includes(lowerContext, "author")
                \/ includes(lowerContext, "creator")
                \/ includes(lowerContext, "developer")
        THEN entityTypes.PERSON
        ELSE entityTypes.CONCEPT

detectEntityType(phrase, context) ==
    LET lowerPhrase == toLowerCase(phrase)
        lowerContext == toLowerCase(context)
    IN  IF \/ includes(lowerContext, "version")
           \/ includes(lowerContext, "update")
           \/ includes(lowerContext, "release")
           \/ includes(lowerPhrase, "ai")
           \/ includes(lowerPhrase, "model")
           \/ includes(lowerPhrase, "api")
        THEN entityTypes.TECHNOLOGY
        ELSE IF \/ includes(lowerContext, "feature")
                \/ includes(lowerContext, "capability")
                \/ includes(lowerContext, "functionality")
                \/ includes(lowerContext, "mode")
        THEN entityTypes.FEATURE
        ELSE IF \/ includes(lowerContext, "tool")
                \/ includes(lowerContext, "platform")
                \/ includes(lowerContext, "service")
                \/ includes(lowerContext, "application")
        THEN entityTypes.TOOL
        ELSE IF \/ includes(lowerContext, "author")
                \/ includes(lowerContext, "creator")
                \/ includes(lowerContext, "developer")
        THEN entityTypes.PERSON
        ELSE entityTypes.CONCEPT

capitalizePhrase(phrase) ==
    LET words == splitBlank(phrase)
    IN  join([i \in 1..Len(words) |-> capitalizeWord(words[i])], " ")

isSignificantPhrase(phrase, context) ==
    \/ includes(context, capitalizePhrase(phrase))
    \/ matchesVersionNumber(phrase)
    \/ matchesAcronym(phrase)
    \/ matchesTechnicalStem(phrase)

\* the words of one key point (lines 291-295)
keyPointWords(point) ==
    SelectSeq(splitWhitespace(stripNonWord(toLowerCase(point))),
              LAMBDA w : Len(w) > 2 /\ w \notin stopWords)

\* an entity object as pushed by extractEntitiesFromKeyPoints; sourceVideos = <<>>
\* is the property being undefined (when defined it is never empty)
Mention(phrase, label, point, videoId, index) ==
    [id |-> "entity_" \o underscoreBlanks(phrase, 1),
     label |-> label,
     type |-> detectEntityType(phrase, point),
     description |-> point,
     sourceVideo |-> videoId,
     keyPointIndex |-> index,
     sourceVideos |-> <<>>]

\* one round of the loop over words (lines 298-343); i counts from 1
mentionsAt(words, i, point, videoId, index) ==
    LET bigram == words[i] \o " " \o words[i + 1]
        trigram == words[i] \o " " \o words[i + 1] \o " " \o words[i + 2]
    IN  (IF includes(point, capitalizeWord(words[i]))
         THEN <<Mention(words[i], capitalizeWord(words[i]), point, videoId, index)>>
         ELSE <<>>)
        \o (IF i < Len(words) /\ isSignificantPhrase(bigram, point)
            THEN <<Mention(bigram, capitalizePhrase(bigram), point, videoId, index)>>
            ELSE <<>>)
        \o (IF i < Len(words) - 1 /\ isSignificantPhrase(trigram, point)
            THEN <<Mention(trigram, capitalizePhrase(trigram), point, videoId, index)>>
            ELSE <<>>)

\* the mentions of one key point; index is the 0-based position of the point
pointMentions(point, videoId, index) ==
    LET words == keyPointWords(point)
    IN  Flatten([i \in 1..Len(words) |-> mentionsAt(words, i, point, videoId, index)])

\* deduplicateEntities: the Map keeps insertion order, the first object of an id
\* stays and is changed in place by the later ones
mergeEntity(existing, entity) ==
    LET tracked == IF existing.sourceVideos = <<>>
                   THEN <<existing.sourceVideo>>
                   ELSE existing.sourceVideos
    IN  [existing EXCEPT
            !.description = IF includes(@, entity.description)
                            THEN @
                            ELSE @ \o " | " \o entity.description,
            !.sourceVideos = IF entity.sourceVideo \in Range(tracked)
                             THEN tracked
                             ELSE Append(tracked, entity.sourceVideo)]

RECURSIVE dedupInto(_, _)
dedupInto(entityMap, entities) ==
    IF entities = <<>> THEN entityMap
    ELSE LET entity == Head(entities)
             hit == {k \in 1..Len(entityMap) : entityMap[k].id = entity.id}
         IN  IF hit # {}
             THEN LET k == CHOOSE k \in hit : TRUE
                  IN  dedupInto([entityMap EXCEPT ![k] = mergeEntity(@, entity)],
                                Tail(entities))
             ELSE dedupInto(Append(entityMap, entity), Tail(entities))

deduplicateEntities(entities) == dedupInto(<<>>, entities)

\* the entities array after the loop over the key points (lines 289-344);
\* keyPoints is a list of strings here
keyPointMentions(keyPoints, videoId) ==
    Flatten([p \in 1..Len(keyPoints) |-> pointMentions(keyPoints[p], videoId, p - 1)])

extractEntitiesFromKeyPoints(keyPoints, videoId) ==
    deduplicateEntities(keyPointMentions(keyPoints, videoId))

\* keyPoints.forEach is missing on anything but an array, and point.toLowerCase
\* on anything but a string: extractEntitiesFromKeyPoints throws a TypeError
extractThrows(kp) ==
    \/ kp.kind # "list"
    \/ \E i \in 1..Len(kp.items) : ~kp.items[i].isString


\* an edge of the snapshot.  The source's edge objects carry different properties
\* by kind; the ones a kind lacks are "" or 0 here.  kind tells the three builders
\* apart (the source marks a document-similarity edge only by type strong/moderate)
Edge(kind, source, target, type, weight, context, shared) ==
    [kind |-> kind, source |-> source, target |-> target, type |-> type,
     weight |-> weight, context |-> context, sharedEntities |-> shared]

videoNodeId(videoId) == "video_" \o ToString(videoId)

\* the distinct values of a sequence in order of first occurrence (Map key order)
RECURSIVE firstOccurrences(_, _)
firstOccurrences(seen, list) ==
    IF list = <<>> THEN seen
    ELSE firstOccurrences(IF Head(list) \in Range(seen) THEN seen
                          ELSE Append(seen, Head(list)),
                          Tail(list))

abs(n) == IF n < 0 THEN -n ELSE n

\* lines 467-500: co-occurrence inside the group of one sourceVideo
coOccurrenceEdges(videoEntities, videoId) ==
    LET n == Len(videoEntities)
        pair(i, j) ==
            LET keyPointDistance ==
                    abs(videoEntities[i].keyPointIndex - videoEntities[j].keyPointIndex)
            IN  IF j > i /\ keyPointDistance <= 2
                THEN <<Edge("co-occurs", videoEntities[i].id, videoEntities[j].id,
                            "co-occurs", [num |-> 1, den |-> keyPointDistance + 1],
                            ToString(videoId), 0)>>
                ELSE <<>>
    IN  Flatten([i \in 1..n |-> Flatten([j \in 1..n |-> pair(i, j)])])

\* appearsInEdges with the bare video id as target
appearsInEdges_bareTarget(entity) ==
    LET sv == entity.sourceVideos
        n == Len(sv)
        one(videoId) == Edge("appears-in", entity.id, ToString(videoId),
                             "appears-in", [num |-> 4, den |-> 5], "cross-video", 0)
    IN  IF n > 1
        THEN Flatten([i \in 1..n |->
                 Flatten([k \in 1..n |-> IF k > i THEN <<one(sv[i]), one(sv[k])>>
                                         ELSE <<>>])])
        ELSE <<>>

\* appearsInEdges with one edge per pair of source videos, to the first of the two
appearsInEdges_onePerPair(entity) ==
    LET sv == entity.sourceVideos
        n == Len(sv)
        one(videoId) == Edge("appears-in", entity.id, videoNodeId(videoId),
                             "appears-in", [num |-> 4, den |-> 5], "cross-video", 0)
    IN  IF n > 1
        THEN Flatten([i \in 1..n |->
                 Flatten([k \in 1..n |-> IF k > i THEN <<one(sv[i])>> ELSE <<>>])])
        ELSE <<>>

\* lines 503-525: two appears-in edges per pair of source videos
appearsInEdges(entity) ==
    LET sv == entity.sourceVideos
        n == Len(sv)
        one(videoId) == Edge("appears-in", entity.id, videoNodeId(videoId),
                             "appears-in", [num |-> 4, den |-> 5], "cross-video", 0)
    IN  IF n > 1
        THEN Flatten([i \in 1..n |->
                 Flatten([k \in 1..n |-> IF k > i THEN <<one(sv[i]), one(sv[k])>>
                                         ELSE <<>>])])
        ELSE <<>>

buildEntityRelationships(entities) ==
    LET groups == firstOccurrences(<<>>, [i \in 1..Len(entities) |-> entities[i].sourceVideo])
        group(videoId) == SelectSeq(entities, LAMBDA e : e.sourceVideo = videoId)
    IN  Flatten([g \in 1..Len(groups) |-> coOccurrenceEdges(group(groups[g]), groups[g])])
        \o Flatten([i \in 1..Len(entities) |-> appearsInEdges(entities[i])])

\* entity.sourceVideos || [entity.sourceVideo]
videoIdsOf(entity) ==
    IF entity.sourceVideos = <<>> THEN <<entity.sourceVideo>> ELSE entity.sourceVideos

\* videoEntityMap.get(videoId) || []
videoEntityIds(entities, videoId) ==
    LET hits == SelectSeq(entities, LAMBDA e : videoId \in Range(videoIdsOf(e)))
    IN  Flatten([i \in 1..Len(hits) |->
            [k \in 1..Cardinality({x \in DOMAIN videoIdsOf(hits[i]) :
                                       videoIdsOf(hits[i])[x] = videoId}) |-> hits[i].id]])

\* jaccard with the union counted as the two lists put together
jaccard_listUnion(entities1, entities2) ==
    LET intersection == SelectSeq(entities1, LAMBDA e : e \in Range(entities2))
    IN  [num |-> Len(intersection), den |-> Len(entities1) + Len(entities2)]

\* lines 631-635
jaccard(entities1, entities2) ==
    LET intersection == SelectSeq(entities1, LAMBDA e : e \in Range(entities2))
        union == Range(entities1) \cup Range(entities2)
    IN  [num |-> Len(intersection), den |-> Cardinality(union)]

\* buildVideoRelationships with the threshold of strong at 0.2
buildVideoRelationships_lowThreshold(videos, entities) ==
    LET n == Len(videos)
        pair(i, k) ==
            LET entities1 == videoEntityIds(entities, videos[i].id)
                entities2 == videoEntityIds(entities, videos[k].id)
                similarity == jaccard(entities1, entities2)
            IN  IF k > i /\ similarity.num > 0
                THEN <<Edge("document-similarity",
                            videoNodeId(videos[i].id), videoNodeId(videos[k].id),
                            IF 10 * similarity.num >= 2 * similarity.den
                            THEN "strong" ELSE "moderate",
                            similarity, "", similarity.num)>>
                ELSE <<>>
    IN  Flatten([i \in 1..n |-> Flatten([k \in 1..n |-> pair(i, k)])])

buildVideoRelationships(videos, entities) ==
    LET n == Len(videos)
        pair(i, k) ==
            LET entities1 == videoEntityIds(entities, videos[i].id)
                entities2 == videoEntityIds(entities, videos[k].id)
                similarity == jaccard(entities1, entities2)
            IN  IF k > i /\ similarity.num > 0
                THEN <<Edge("document-similarity",
                            videoNodeId(videos[i].id), videoNodeId(videos[k].id),
                            IF 10 * similarity.num > 3 * similarity.den
                            THEN "strong" ELSE "moderate",
                            similarity, "", similarity.num)>>
                ELSE <<>>
    IN  Flatten([i \in 1..n |-> Flatten([k \in 1..n |-> pair(i, k)])])

\* lines 540-552; the display properties are left to the category
videoNode(video) ==
    [id |-> videoNodeId(video.id), videoId |-> video.id, type |-> "video",
     category |-> video.categoryId]

\* lines 555-574 for one video: what its summary contributes, or that the
\* callback throws.  A JSON.parse error is caught (line 561) and the video is
\* skipped; summaryJson.keyPoints of a null summaryJson is a TypeError, and so
\* is whatever extractEntitiesFromKeyPoints throws: nothing catches those
videoThrows(video) ==
    LET s == video.summaryJson
    IN  /\ summaryTruthy(s)
        /\ s.parses
        /\ \/ s.value.kind = "null"
           \/ /\ kpTruthy(s.value.keyPoints)
              /\ kpLength(s.value.keyPoints) > 0
              /\ extractThrows(s.value.keyPoints)

videoEntities(video) ==
    LET s == video.summaryJson
        kp == s.value.keyPoints
    IN  IF summaryTruthy(s) /\ s.parses /\ kpTruthy(kp) /\ kpLength(kp) > 0
        THEN extractEntitiesFromKeyPoints([i \in 1..Len(kp.items) |-> kp.items[i].text],
                                          video.id)
        ELSE <<>>

Failure == [ok |-> FALSE, nodes |-> <<>>, edges |-> <<>>,
            stats |-> [totalNodes |-> 0, totalEdges |-> 0, videoNodes |-> 0, entityNodes |-> 0]]

\* the snapshot of lines 577-603 from the video nodes and the entities gathered
assemble(videos, videoNodes, allEntities) ==
    LET uniqueEntities == deduplicateEntities(allEntities)
        entityRelationships == buildEntityRelationships(uniqueEntities)
        allNodes == videoNodes \o uniqueEntities
        videoRelationships == buildVideoRelationships(videos, uniqueEntities)
        allEdges == entityRelationships \o videoRelationships
    IN  [ok |-> TRUE, nodes |-> allNodes, edges |-> allEdges,
         stats |-> [totalNodes |-> Len(allNodes), totalEdges |-> Len(allEdges),
                    videoNodes |-> Len(videoNodes),
                    entityNodes |-> Len(uniqueEntities)]]

\* buildGraphFromVideos pushing the video node only once the summary is there
buildGraphFromVideos_nodeAfterSummary(videos) ==
    IF \E i \in 1..Len(videos) : videoThrows(videos[i])
    THEN Failure
    ELSE LET withSummary == SelectSeq(videos, LAMBDA v : summaryTruthy(v.summaryJson))
         IN  assemble(videos,
                      [i \in 1..Len(withSummary) |-> videoNode(withSummary[i])],
                      Flatten([i \in 1..Len(videos) |-> videoEntities(videos[i])]))

buildGraphFromVideos(videos) ==
    IF \E i \in 1..Len(videos) : videoThrows(videos[i])
    THEN Failure
    ELSE assemble(videos,
                  [i \in 1..Len(videos) |-> videoNode(videos[i])],
                  Flatten([i \in 1..Len(videos) |-> videoEntities(videos[i])]))

(***************************************************************************)
(* RAGService.  A similarity is a cosine, which has a square root in it:   *)
(* a similarity value v >= 0 is kept as its square, the ratio num / den.   *)
(***************************************************************************)
TopWords == 100
SubstringLimit == 1000

\* const x = v; F(x): the value v is computed once
const(v, F(_)) == CHOOSE r \in {F(x) : x \in {v}} : TRUE

RECURSIVE sumOf(_, _)
sumOf(f, S) ==
    IF S = {} THEN 0
    ELSE LET x == CHOOSE x \in S : TRUE IN f[x] + sumOf(f, S \ {x})

\* the words of a text that count (lines 252-255)
embeddingWords(text) ==
    SelectSeq(splitWhitespace(stripNonWord(toLowerCase(text))), LAMBDA w : Len(w) > 3)

\* generateSimpleEmbedding: word -> frequency for the TopWords most frequent
\* words; Array.prototype.sort is stable, so equal frequencies keep the order
\* in which the words first occur
generateSimpleEmbedding(text) ==
    const(embeddingWords(text), LAMBDA words :
    const(firstOccurrences(<<>>, words), LAMBDA keys :
    const([k \in DOMAIN keys |-> Cardinality({i \in DOMAIN words : words[i] = keys[k]})],
          LAMBDA frequency :
        LET rank(i) == Cardinality({j \in DOMAIN keys :
                           \/ frequency[j] > frequency[i]
                           \/ frequency[j] = frequency[i] /\ j < i})
            topWords == {i \in DOMAIN keys : rank(i) < TopWords}
        IN  [w \in {keys[i] : i \in topWords} |->
                frequency[CHOOSE i \in topWords : keys[i] = w]])))

\* cosineSimilarity, as the square of its value
cosineSimilarity(embedding1, embedding2) ==
    const(<<embedding1, embedding2>>, LAMBDA e :
        LET both == DOMAIN e[1] \cap DOMAIN e[2]
            dotProduct == sumOf([w \in both |-> e[1][w] * e[2][w]], both)
            magnitude1 == sumOf([w \in DOMAIN e[1] |-> e[1][w] * e[1][w]], DOMAIN e[1])
            magnitude2 == sumOf([w \in DOMAIN e[2] |-> e[2][w] * e[2][w]], DOMAIN e[2])
        IN  IF magnitude1 = 0 \/ magnitude2 = 0
            THEN [num |-> 0, den |-> 1]
            ELSE [num |-> dotProduct * dotProduct, den |-> magnitude1 * magnitude2])

\* n * 0.2, as the square of its value
fifths(n) == [num |-> n * n, den |-> 25]

\* v > a / b for a similarity v kept as its square
exceeds(v, a, b) == v.num * b * b > a * a * v.den

\* v1 > v2 and Math.max for similarities kept as their squares
greater(v1, v2) == v1.num * v2.den > v2.num * v1.den
maxSimilarity(v1, v2) == IF greater(v2, v1) THEN v2 ELSE v1

ragStopWords == {"the", "a", "an", "and", "or", "but", "in", "on", "at", "to", "for",
                 "of", "with", "by", "from", "as", "is", "are", "was", "were", "been",
                 "be", "have", "has", "had", "do", "does", "did", "will", "would",
                 "should", "could", "may", "might", "can", "this", "that", "these",
                 "those"}

\* extractKeywords of findCommonThemes, in insertion order of the Set
extractKeywords(points) ==
    firstOccurrences(<<>>,
        Flatten([p \in 1..Len(points) |->
            SelectSeq(splitWhitespace(stripNonWord(toLowerCase(points[p].text))),
                      LAMBDA w : Len(w) > 3 /\ w \notin ragStopWords)]))

\* keyPoints1 and keyPoints2 are lists of strings here
findCommonThemes(keyPoints1, keyPoints2) ==
    LET keywords2 == Range(extractKeywords(keyPoints2))
    IN  SelectSeq(extractKeywords(keyPoints1), LAMBDA keyword : keyword \in keywords2)

\* Array.prototype.join(' ') on a list of key points
joinItems(items) == join([i \in 1..Len(items) |-> items[i].text], " ")

substring(s, limit) == SubSeq(s, 1, IF Len(s) < limit THEN Len(s) ELSE limit)

\* the service: index and embeddings are Maps, kept in insertion order
NoRag == [index |-> <<>>, embeddings |-> <<>>]

entryOf(map, videoId) == {k \in DOMAIN map : map[k].id = videoId}
has(map, videoId) == entryOf(map, videoId) # {}
get(map, videoId) == map[CHOOSE k \in entryOf(map, videoId) : TRUE]

\* Map.prototype.set: a key that is there keeps its place
set(map, entry) ==
    IF has(map, entry.id)
    THEN [k \in DOMAIN map |-> IF map[k].id = entry.id THEN entry ELSE map[k]]
    ELSE Append(map, entry)

\* the summary as a route hands it to the service: the parsed value, or null
\* when there is none, (JsonNull stands for null)
\* summaryJson && summaryJson.keyPoints ? summaryJson.keyPoints : []
keyPointsOf(summary) ==
    IF summary.kind = "object" /\ kpTruthy(summary.keyPoints)
    THEN summary.keyPoints
    ELSE KeyPointList(<<>>)

\* indexVideo (lines 15-54): the entry is stored first; keyPoints.join is missing
\* on a keyPoints that is not an array, and then the embedding is not stored and
\* the call throws
indexVideo(rag, videoId, fullText, summary) ==
    LET keyPoints == keyPointsOf(summary)
        stored == [rag EXCEPT !.index =
                      set(@, [id |-> videoId, keyPoints |-> keyPoints,
                              transcription |-> fullText])]
        embeddingText == IF kpLength(keyPoints) > 0
                         THEN joinItems(keyPoints.items) \o " "
                                  \o substring(fullText, SubstringLimit)
                         ELSE fullText
    IN  IF kpLength(keyPoints) > 0 /\ keyPoints.kind # "list"
        THEN [threw |-> TRUE, rag |-> stored]
        ELSE [threw |-> FALSE,
              rag |-> [stored EXCEPT !.embeddings =
                          set(@, [id |-> videoId,
                                  embedding |-> generateSimpleEmbedding(embeddingText)])]]

\* removeVideo
removeVideo(rag, videoId) ==
    [index |-> SelectSeq(rag.index, LAMBDA e : e.id # videoId),
     embeddings |-> SelectSeq(rag.embeddings, LAMBDA e : e.id # videoId)]

Relationship(targetVideoId, similarity, type, reason, commonThemes) ==
    [targetVideoId |-> targetVideoId, similarity |-> similarity, type |-> type,
     reason |-> reason, commonThemes |-> commonThemes]

\* relationships.sort((a, b) => b.similarity - a.similarity), a stable sort
sortBySimilarity(list) ==
    LET before(j, i) == \/ greater(list[j].similarity, list[i].similarity)
                        \/ /\ ~greater(list[i].similarity, list[j].similarity)
                           /\ j < i
        rank(i) == Cardinality({j \in DOMAIN list : before(j, i)})
    IN  [r \in 1..Len(list) |-> list[CHOOSE i \in DOMAIN list : rank(i) = r - 1]]

\* lines 140-157: no key points, embedding against embedding
contentRelationship(rag, videoId, other) ==
    IF ~has(rag.embeddings, other.id) THEN <<>>
    ELSE const(cosineSimilarity(get(rag.embeddings, videoId).embedding,
                                get(rag.embeddings, other.id).embedding),
               LAMBDA similarity :
                   IF exceeds(similarity, 3, 10)
                   THEN <<Relationship(other.id, similarity,
                              IF exceeds(similarity, 6, 10) THEN "strong" ELSE "moderate",
                              "Content similarity", <<>>)>>
                   ELSE <<>>)

\* lines 169-181: key points against the embedding of an entry without key points
keyPointsToContentRelationship(rag, videoKeyPointsEmbedding, other) ==
    IF ~has(rag.embeddings, other.id) THEN <<>>
    ELSE const(cosineSimilarity(videoKeyPointsEmbedding,
                                get(rag.embeddings, other.id).embedding),
               LAMBDA similarity :
                   IF exceeds(similarity, 2, 10)
                   THEN <<Relationship(other.id, similarity,
                              IF exceeds(similarity, 5, 10) THEN "strong" ELSE "moderate",
                              "Key points to content similarity", <<>>)>>
                   ELSE <<>>)

\* keyPointsRelationship pushing a relationship by the cosine alone
keyPointsRelationship_similarityOnly(videoKeyPoints, videoKeyPointsEmbedding, other) ==
    const(cosineSimilarity(videoKeyPointsEmbedding,
                           generateSimpleEmbedding(
                               toLowerCase(joinItems(other.keyPoints.items)))),
          LAMBDA similarity :
    const(findCommonThemes(videoKeyPoints.items, other.keyPoints.items),
          LAMBDA commonThemes :
        IF exceeds(similarity, 2, 10)
        THEN <<Relationship(other.id,
                   maxSimilarity(similarity, fifths(Len(commonThemes))),
                   IF exceeds(similarity, 5, 10) \/ Len(commonThemes) >= 2
                   THEN "strong" ELSE "moderate",
                   IF Len(commonThemes) > 0
                   THEN "Common themes: "
                            \o join(SubSeq(commonThemes, 1,
                                           IF Len(commonThemes) < 3
                                           THEN Len(commonThemes) ELSE 3), ", ")
                   ELSE "Key points similarity",
                   commonThemes)>>
        ELSE <<>>))

\* lines 183-205: key points against key points
keyPointsRelationship(videoKeyPoints, videoKeyPointsEmbedding, other) ==
    const(cosineSimilarity(videoKeyPointsEmbedding,
                           generateSimpleEmbedding(
                               toLowerCase(joinItems(other.keyPoints.items)))),
          LAMBDA similarity :
    const(findCommonThemes(videoKeyPoints.items, other.keyPoints.items),
          LAMBDA commonThemes :
        IF exceeds(similarity, 2, 10) \/ Len(commonThemes) > 0
        THEN <<Relationship(other.id,
                   maxSimilarity(similarity, fifths(Len(commonThemes))),
                   IF exceeds(similarity, 5, 10) \/ Len(commonThemes) >= 2
                   THEN "strong" ELSE "moderate",
                   IF Len(commonThemes) > 0
                   THEN "Common themes: "
                            \o join(SubSeq(commonThemes, 1,
                                           IF Len(commonThemes) < 3
                                           THEN Len(commonThemes) ELSE 3), ", ")
                   ELSE "Key points similarity",
                   commonThemes)>>
        ELSE <<>>))

\* a TypeError inside the loop for one other entry: the embedding of the video
\* itself is missing, join is missing on a keyPoints that is not an array, or
\* toLowerCase on a key point that is not a string
relationshipThrows(rag, videoId, videoKeyPoints, other) ==
    IF kpLength(videoKeyPoints) = 0
    THEN has(rag.embeddings, other.id) /\ ~has(rag.embeddings, videoId)
    ELSE /\ kpLength(other.keyPoints) # 0
         /\ \/ other.keyPoints.kind # "list"
            \/ \E i \in DOMAIN other.keyPoints.items : ~other.keyPoints.items[i].isString
            \/ \E i \in DOMAIN videoKeyPoints.items : ~videoKeyPoints.items[i].isString

\* the relationships pushed in the loop over the index, before the sort
pushed(rag, videoId, videoKeyPoints, others) ==
    IF kpLength(videoKeyPoints) = 0
    THEN Flatten([k \in DOMAIN others |-> contentRelationship(rag, videoId, others[k])])
    ELSE const(generateSimpleEmbedding(toLowerCase(joinItems(videoKeyPoints.items))),
               LAMBDA videoKeyPointsEmbedding :
                   Flatten([k \in DOMAIN others |->
                       IF kpLength(others[k].keyPoints) = 0
                       THEN keyPointsToContentRelationship(rag, videoKeyPointsEmbedding,
                                                           others[k])
                       ELSE keyPointsRelationship(videoKeyPoints, videoKeyPointsEmbedding,
                                                  others[k])]))

\* buildRelationships (lines 124-212): the sorted relationships, or that it throws
buildRelationships(rag, videoId, summary) ==
    const(keyPointsOf(summary), LAMBDA videoKeyPoints :
    const(SelectSeq(rag.index, LAMBDA e : e.id # videoId), LAMBDA others :
        IF ~has(rag.index, videoId)
        THEN [threw |-> FALSE, relationships |-> <<>>]
        ELSE IF \/ kpLength(videoKeyPoints) # 0 /\ videoKeyPoints.kind # "list"
                \/ \E k \in DOMAIN others :
                       relationshipThrows(rag, videoId, videoKeyPoints, others[k])
        THEN [threw |-> TRUE, relationships |-> <<>>]
        ELSE [threw |-> FALSE,
              relationships |->
                  const(pushed(rag, videoId, videoKeyPoints, others),
                        LAMBDA list : sortBySimilarity(list))]))

(***************************************************************************)
(* State                                                                   *)
(***************************************************************************)
VARIABLES
    videos,     \* the video table, as prisma.video.findMany returns it
    graph,      \* the last graph handed to a caller, and how it was asked for
    calls,      \* number of calls made so far
    cache,      \* the NodeCache of cacheMiddleware: URL -> cached body
    mentions,   \* a list of raw mentions, the input of deduplicateEntities
    entities,   \* what deduplicateEntities last returned
    entitiesEarlier,    \* what it returned the time before
    rag,        \* the RAGService singleton: index and embeddings
    kg,         \* the knowledgeGraph table: video id -> stored relationships
    rebuild,    \* the POST /rebuild request in flight, and what rebuilds did
    response,   \* the last response sent for a relationships or rebuild request
    page        \* the graph page of the frontend: the data loaded and the views made

vars == <<videos, graph, calls, cache, mentions, entities, entitiesEarlier,
          rag, kg, rebuild, response, page>>
resolverVars == <<mentions, entities, entitiesEarlier>>
graphVars == <<videos, graph>>
rebuildVars == <<rag, kg, rebuild, response>>

\* number of calls of one run
MaxCalls == 2
\* number of malformed summaries in the table
MaxMalformed == 1

\* the key points a summary can be made of
KeyPointCatalog == {"React version", "React", "Api_key api key"}

VideoIds == 1..MaxVideos

\* the categories; the rows of a table take them in turn
Categories == <<"c1", "c2">>
categoryOf(id) == Categories[((id - 1) % Len(Categories)) + 1]

Row(id, transcription, summaryJson) ==
    [id |-> id, categoryId |-> categoryOf(id), transcription |-> transcription,
     summaryJson |-> summaryJson]

\* summaries processVideo stores (part_008 320-325): an object whose keyPoints
\* is a list of strings
WellFormedSummaries ==
    UNION {{JsonText(JsonObject(KeyPointList([i \in 1..k |-> StrItem(kps[i])]))) :
               kps \in [1..k -> KeyPointCatalog]} : k \in 0..MaxKeyPoints}

\* a summary that fails to parse, parses to null, has a keyPoints that is not
\* a list, or a key point that is not a string
MalformedSummaries ==
    {BadText,
     JsonText(JsonNull),
     JsonText(JsonObject(KeyPointString("React"))),
     JsonText(JsonObject(KeyPointList(<<NumItem>>)))}

\* a summary object without the keyPoints property
NoKeyPointsSummary == JsonText(JsonObject(NoKeyPoints))

Summaries ==
    {SqlNull, NoKeyPointsSummary} \cup WellFormedSummaries \cup MalformedSummaries

keyPointCount(summaryJson) ==
    IF summaryJson \in WellFormedSummaries
    THEN Len(summaryJson.value.keyPoints.items) ELSE 0

RECURSIVE sumOver(_, _)
sumOver(f, list) == IF list = <<>> THEN 0 ELSE f[Head(list)] + sumOver(f, Tail(list))

None == [op |-> "none", where |-> "", input |-> <<>>, status |-> 0, body |-> Failure]

Orders(n) == {p \in [1..n -> 1..n] : \A i, j \in 1..n : p[i] = p[j] => i = j}

\* the tables of the runs: up to MaxVideos rows, MaxKeyPoints key points in all
\* of them together, at most MaxMalformed malformed summaries
Tables ==
    UNION {{[i \in 1..n |-> Row(i, Text("react hooks tutorial"), ss[i])] :
               ss \in {t \in [1..n -> Summaries] :
                         /\ sumOver([i \in 1..n |-> keyPointCount(t[i])],
                                    [i \in 1..n |-> i]) <= MaxKeyPoints
                         /\ Cardinality({i \in 1..n : t[i] \in MalformedSummaries})
                                <= MaxMalformed}} : n \in 0..MaxVideos}

(***************************************************************************)
(* cacheMiddleware (file-parser.service.js 392-420): GET responses are     *)
(* kept by URL; res.json is replaced, so whatever body a handler or the    *)
(* error middleware sends with json() is kept, and a hit is sent with      *)
(* res.json(cached), status 200                                            *)
(***************************************************************************)
graphUrl(categoryId) ==
    IF categoryId = "" THEN "/api/graph" ELSE "/api/graph?categoryId=" \o categoryId
relationshipsUrl(id) == "/api/graph/relationships/" \o ToString(id)

Urls == {graphUrl(c) : c \in {""} \cup Range(Categories)}
            \cup {relationshipsUrl(id) : id \in VideoIds}

NoEntry == [present |-> FALSE]
Entry(body) == [present |-> TRUE, body |-> body]
EmptyCache == [url \in Urls |-> NoEntry]

\* an entry reaches its time to live
Expire(url) ==
    /\ cache[url].present
    /\ cache' = [cache EXCEPT ![url] = NoEntry]
    /\ UNCHANGED <<page, videos, graph, calls, resolverVars, rebuildVars>>

(***************************************************************************)
(* Specification of the snapshot: buildGraphFromVideos applied to the rows *)
(* of a table, all of them or those of one category, in any order          *)
(***************************************************************************)
\* the graph page before loadData has set graphData (useState<any>(null),
\* page.tsx line 11)
NoPage == [loaded |-> FALSE, fetched |-> Failure, data |-> Failure, views |-> <<>>]

ResolverIdle == mentions = <<>> /\ entities = <<>> /\ entitiesEarlier = <<>>

NoRebuild == [pc |-> "idle", queue |-> <<>>, pos |-> 0, rebuilt |-> 0, threw |-> 0,
              status |-> 0, before |-> <<>>, mid |-> <<>>, results |-> <<>>]
NoResponse == [op |-> "none", status |-> 0]

RebuildIdle == rag = NoRag /\ kg = <<>> /\ rebuild = NoRebuild /\ response = NoResponse

GraphInit ==
    /\ page = NoPage
    /\ videos \in Tables
    /\ graph = None
    /\ calls = 0
    /\ cache = EmptyCache
    /\ ResolverIdle
    /\ RebuildIdle

\* req.prisma.video.findMany({ where }) of GET /api/graph (lines 72-80)
findMany(table, categoryId) ==
    SelectSeq(table, LAMBDA v : categoryId = "" \/ v.categoryId = categoryId)

\* knowledgeGraphService.buildGraphFromVideos(videos) with the rows found for
\* the category ("" for all rows), in the order given; the promise resolves
\* with the snapshot or rejects (body.ok = FALSE).  The service keeps nothing
\* from one call to the next: a run is a table and one call
BuildGraph(categoryId, order) ==
    /\ graph = None
    /\ LET found == findMany(videos, categoryId)
           input == [i \in 1..Len(order) |-> found[order[i]]]
       IN  graph' = [op |-> "build", where |-> categoryId,
                     input |-> [i \in 1..Len(input) |-> input[i].id], status |-> 0,
                     body |-> buildGraphFromVideos(input)]
    /\ UNCHANGED <<page, videos, calls, cache, resolverVars, rebuildVars>>

GraphNext ==
    \E categoryId \in {""} \cup Range(Categories) :
        \E order \in Orders(Len(findMany(videos, categoryId))) :
            BuildGraph(categoryId, order)

SpecGraph == GraphInit /\ [][GraphNext]_vars

(***************************************************************************)
(* Specification of GET /api/graph behind the cache                        *)
(***************************************************************************)
\* the handler of GET /api/graph (lines 70-107): JSON.parse of a stored text is
\* not guarded, a throw goes to the error middleware, which answers 500
graphHandler(table, categoryId) ==
    LET found == findMany(table, categoryId)
        videosWithParsedSummary ==
            [i \in 1..Len(found) |->
                [found[i] EXCEPT !.summaryJson =
                    IF found[i].summaryJson.form = "null" THEN SqlNull
                    ELSE Parsed(found[i].summaryJson.value)]]
    IN  IF \E i \in 1..Len(found) :
               found[i].summaryJson.form = "string" /\ ~found[i].summaryJson.parses
        THEN [status |-> 500, body |-> Failure]
        ELSE CHOOSE sent \in
                 {IF graphData.ok
                  THEN [status |-> 200,
                        body |-> [ok |-> TRUE, nodes |-> graphData.nodes,
                                  edges |-> graphData.edges,
                                  stats |-> [totalNodes |-> graphData.stats.totalNodes,
                                             totalEdges |-> graphData.stats.totalEdges,
                                             videoNodes |-> graphData.stats.videoNodes,
                                             entityNodes |-> graphData.stats.entityNodes,
                                             categories |->
                                                 Cardinality({found[i].categoryId :
                                                                  i \in DOMAIN found}),
                                             provider |-> "Knowledge Graph (Key Points)"]]]
                  ELSE [status |-> 500, body |-> Failure] :
                      graphData \in {buildGraphFromVideos(videosWithParsedSummary)}} : TRUE

\* GET /api/graph?categoryId=..., "" for a request without the parameter
GetGraph(categoryId) ==
    /\ LET url == graphUrl(categoryId)
           found == findMany(videos, categoryId)
           input == [i \in 1..Len(found) |-> found[i].id]
       IN  IF cache[url].present
           THEN /\ graph' = [op |-> "get", where |-> categoryId, input |-> input,
                             status |-> 200, body |-> cache[url].body]
                /\ cache' = cache
           ELSE \E sent \in {graphHandler(videos, categoryId)} :
                    /\ graph' = [op |-> "get", where |-> categoryId, input |-> input,
                                 status |-> sent.status, body |-> sent.body]
                    /\ cache' = [cache EXCEPT ![url] = Entry(sent.body)]
    /\ UNCHANGED <<page, videos, calls, resolverVars, rebuildVars>>

GetGraphNext ==
    \/ \E categoryId \in {""} \cup Range(Categories) : GetGraph(categoryId)
    \/ \E url \in Urls : Expire(url)

SpecGetGraph == GraphInit /\ [][GetGraphNext]_vars


(***************************************************************************)
(* Specification of the identity resolver: deduplicateEntities applied to  *)
(* a list of raw mentions in any order                                     *)
(***************************************************************************)
\* longest list of raw mentions
MaxMentions == 2

\* the raw mentions the key points of the catalog give, in any of the videos
MentionPool ==
    UNION {Range(pointMentions(point, videoId, 0)) :
               point \in KeyPointCatalog, videoId \in VideoIds}

MentionLists == UNION {[1..n -> MentionPool] : n \in 0..MaxMentions}

ResolverInit ==
    /\ page = NoPage
    /\ mentions \in MentionLists
    /\ entities = <<>>
    /\ entitiesEarlier = <<>>
    /\ calls = 0
    /\ videos = <<>>
    /\ graph = None
    /\ cache = EmptyCache
    /\ RebuildIdle

\* knowledgeGraphService.deduplicateEntities(entities) with the mentions in the
\* order given
Resolve(order) ==
    /\ calls < MaxCalls
    /\ entities' = deduplicateEntities([i \in 1..Len(order) |-> mentions[order[i]]])
    /\ entitiesEarlier' = entities
    /\ calls' = calls + 1
    /\ UNCHANGED <<page, mentions, graphVars, cache, rebuildVars>>

ResolverNext == \E order \in Orders(Len(mentions)) : Resolve(order)

SpecResolver == ResolverInit /\ [][ResolverNext]_vars

\* s.split(' | ')
RECURSIVE splitBar(_, _, _)
splitBar(s, i, cur) ==
    IF i > Len(s) THEN <<cur>>
    ELSE IF i + 2 <= Len(s) /\ SubSeq(s, i, i + 2) = " | "
         THEN <<cur>> \o splitBar(s, i + 3, "")
         ELSE splitBar(s, i + 1, cur \o CharAt(s, i))

\* the distinct description strings an entity has accumulated
descriptionSet(entity) == Range(splitBar(entity.description, 1, ""))

\* what an entity record says, apart from the order of accumulation
entityFacts(list) ==
    {[id |-> list[k].id, type |-> list[k].type,
      sources |-> Range(videoIdsOf(list[k])),
      descriptions |-> descriptionSet(list[k])] : k \in DOMAIN list}

\* C3: deduplicateEntities is order-independent: the same mentions in two
\* orders give entity records with the same id, type and source documents and
\* the same set of distinct description strings
C3_ResolveOrderIndependent ==
    calls >= 2 => entityFacts(entities) = entityFacts(entitiesEarlier)

(***************************************************************************)
(* Specification of the stored relationships: POST /api/graph/rebuild,     *)
(* GET /api/graph/relationships/:id, a restart of the process              *)
(***************************************************************************)
\* a row of the knowledgeGraph table: the relationships column holds
\* JSON.stringify of the list and JSON.parse gives the list back (numbers,
\* strings and lists of strings only)
NoGraphRow == [exists |-> FALSE, relationships |-> <<>>]
GraphRow(relationships) == [exists |-> TRUE, relationships |-> relationships]

\* what a row can hold in these runs: the transcription and summary of a video
\* not processed yet, of a video whose summary failed, of videos with key
\* points, and of one whose keyPoints came back as a string
RebuildContents ==
    {<<NullText, SqlNull>>,
     <<Text("react hooks tutorial"), SqlNull>>,
     <<Text("react hooks tutorial"),
       JsonText(JsonObject(KeyPointList(<<StrItem("React version")>>)))>>,
     <<Text("react state guide"),
       JsonText(JsonObject(KeyPointList(<<StrItem("React")>>)))>>,
     <<Text("react state guide"), JsonText(JsonObject(KeyPointString("React")))>>}

RebuildTables ==
    UNION {{[i \in 1..n |-> Row(i, cs[i][1], cs[i][2])] :
               cs \in [1..n -> RebuildContents]} : n \in 0..MaxVideos}

\* the summary a route hands to the service (lines 178-188): the parsed value,
\* null when there is no text or JSON.parse throws
parsedSummary(video) ==
    IF summaryTruthy(video.summaryJson) /\ video.summaryJson.parses
    THEN video.summaryJson.value
    ELSE JsonNull

\* the end of processVideo for one video (part_008 435-459): index it, build its
\* relationships, create its knowledgeGraph row; a throw is logged and nothing
\* is stored
processOne(state, video) ==
    IF video.transcription.isNull THEN state
    ELSE const(indexVideo(state.rag, video.id, video.transcription.text,
                          parsedSummary(video)), LAMBDA indexed :
         const(buildRelationships(indexed.rag, video.id, parsedSummary(video)),
               LAMBDA built :
             IF indexed.threw \/ built.threw \/ state.kg[video.id].exists
             THEN [state EXCEPT !.rag = indexed.rag]
             ELSE [rag |-> indexed.rag,
                   kg |-> [state.kg EXCEPT ![video.id] = GraphRow(built.relationships)]]))

\* the videos of a table processed one after another in the order given
RECURSIVE processAll(_, _, _)
processAll(state, table, order) ==
    IF order = <<>> THEN state
    ELSE const(processOne(state, table[Head(order)]),
               LAMBDA next : processAll(next, table, Tail(order)))

RebuildInit ==
    /\ page = NoPage
    /\ videos \in RebuildTables
    /\ \E order \in Orders(Len(videos)) :
           \E processed \in {processAll([rag |-> NoRag,
                                         kg |-> [id \in DOMAIN videos |-> NoGraphRow]],
                                        videos, order)} :
               rag = processed.rag /\ kg = processed.kg
    /\ rebuild = NoRebuild
    /\ response = NoResponse
    /\ cache = EmptyCache
    /\ calls = 0
    /\ graph = None
    /\ ResolverIdle

\* the body of the loop of POST /rebuild for one video (lines 177-228): a throw
\* of indexVideo or buildRelationships is caught and logged, the row of the
\* video is then not written
rebuildOne(state, video) ==
    const(IF video.transcription.text # ""
          THEN indexVideo(state.rag, video.id, video.transcription.text,
                          parsedSummary(video))
          ELSE [threw |-> FALSE, rag |-> state.rag], LAMBDA indexed :
    const(buildRelationships(indexed.rag, video.id, parsedSummary(video)),
          LAMBDA built :
        IF indexed.threw \/ built.threw
        THEN [rag |-> indexed.rag, kg |-> state.kg, threw |-> TRUE]
        ELSE [rag |-> indexed.rag,
              kg |-> [state.kg EXCEPT ![video.id] = GraphRow(built.relationships)],
              threw |-> FALSE]))

\* POST /api/graph/rebuild arrives: findMany of the videos with a transcription
\* (lines 169-173)
RebuildStart ==
    /\ calls < MaxCalls
    /\ rebuild.pc # "running"
    /\ rebuild' = [rebuild EXCEPT
                      !.pc = "running",
                      !.queue = SelectSeq(videos, LAMBDA v : ~v.transcription.isNull),
                      !.pos = 1, !.rebuilt = 0, !.threw = 0, !.status = 0,
                      !.before = kg, !.mid = <<>>]
    /\ calls' = calls + 1
    /\ UNCHANGED <<page, videos, graph, cache, resolverVars, rag, kg, response>>

\* the loop takes the next video; each upsert is awaited, requests that arrive
\* meanwhile are served in between
RebuildStep ==
    /\ rebuild.pc = "running"
    /\ rebuild.pos <= Len(rebuild.queue)
    /\ \E done \in {rebuildOne([rag |-> rag, kg |-> kg], rebuild.queue[rebuild.pos])} :
           /\ rag' = done.rag
           /\ kg' = done.kg
           /\ rebuild' = [rebuild EXCEPT
                             !.pos = @ + 1,
                             !.rebuilt = IF done.threw THEN @ ELSE @ + 1,
                             !.threw = IF done.threw THEN @ + 1 ELSE @,
                             !.mid = Append(@, done.kg)]
    /\ UNCHANGED <<page, videos, graph, calls, cache, resolverVars, response>>

\* the loop is over: res.json with the counts (lines 231-235)
RebuildFinish ==
    /\ rebuild.pc = "running"
    /\ rebuild.pos > Len(rebuild.queue)
    /\ rebuild' = [rebuild EXCEPT !.pc = "done", !.status = 200,
                                  !.results = Append(@, kg)]
    /\ response' = [op |-> "rebuild", status |-> 200,
                    videosProcessed |-> rebuild.rebuilt,
                    totalVideos |-> Len(rebuild.queue)]
    /\ UNCHANGED <<page, videos, graph, calls, cache, resolverVars, rag, kg>>

\* prisma.video.findUnique({ where: { id } }): the row in a list, or no row
findUnique(table, id) == SelectSeq(table, LAMBDA v : v.id = id)

\* the handler of GET /api/graph/relationships/:id behind the cache (lines 114-161)
relationshipsHandler(table, stored, id) ==
    LET relationships == IF stored[id].exists THEN stored[id].relationships ELSE <<>>
        related(rel) == IF findUnique(table, rel.targetVideoId) # <<>>
                        THEN [found |-> TRUE, id |-> rel.targetVideoId,
                              category |->
                                  findUnique(table, rel.targetVideoId)[1].categoryId]
                        ELSE [found |-> FALSE, id |-> 0, category |-> ""]
    IN  IF findUnique(table, id) = <<>>
        THEN [status |-> 404,
              body |-> [error |-> "Video not found", videoId |-> 0, relationships |-> <<>>]]
        ELSE [status |-> 200,
              body |-> [error |-> "", videoId |-> id,
                        relationships |->
                            [k \in DOMAIN relationships |->
                                [rel |-> relationships[k],
                                 video |-> related(relationships[k])]]]]

GetRelationships(id) ==
    /\ LET url == relationshipsUrl(id)
           sent == relationshipsHandler(videos, kg, id)
       IN  IF cache[url].present
           THEN /\ response' = [op |-> "relationships", status |-> 200,
                                id |-> id, body |-> cache[url].body]
                /\ cache' = cache
           ELSE /\ response' = [op |-> "relationships", status |-> sent.status,
                                id |-> id, body |-> sent.body]
                /\ cache' = [cache EXCEPT ![url] = Entry(sent.body)]
    /\ UNCHANGED <<page, videos, graph, calls, resolverVars, rag, kg, rebuild>>

\* the process is started anew: the index, the embeddings and the cache are
\* gone, the tables stay
Restart ==
    /\ rebuild.pc # "running"
    /\ rag # NoRag \/ cache # EmptyCache \/ rebuild.results # <<>>
    /\ rag' = NoRag
    /\ cache' = EmptyCache
    /\ rebuild' = [rebuild EXCEPT !.results = <<>>]
    /\ UNCHANGED <<page, videos, graph, calls, resolverVars, kg, response>>

RebuildNext ==
    \/ RebuildStart
    \/ RebuildStep
    \/ RebuildFinish
    \/ \E id \in VideoIds : GetRelationships(id)
    \/ \E url \in Urls : Expire(url)
    \/ Restart

SpecRebuild == RebuildInit /\ [][RebuildNext]_vars

\* C5: POST /api/graph/rebuild is idempotent: run twice in succession over the
\* same documents, it leaves the stored relationships of every document as the
\* first run left them, whatever the in-memory index held before the first run
C5_RebuildIdempotent ==
    Len(rebuild.results) >= 2 => rebuild.results[2] = rebuild.results[1]

\* C6: a reader running beside a rebuild sees the stored relationships either
\* all as before the rebuild or all as after it: whenever a request can be
\* served while the rebuild runs, what GET /relationships/:id reads for the
\* documents is the table of before or the table the rebuild ends with
C6_NoIntermediateState ==
    rebuild.pc = "done" =>
        \A k \in DOMAIN rebuild.mid :
            rebuild.mid[k] = rebuild.before \/ rebuild.mid[k] = kg

\* C7: if the processing of a document throws during POST /api/graph/rebuild,
\* the rebuild is reported as a failure and the stored relationships of every
\* document are as before
C7_FailureKeepsRelationships ==
    (rebuild.pc = "done" /\ rebuild.threw > 0) =>
        /\ rebuild.status >= 400
        /\ kg = rebuild.before

(***************************************************************************)
(* Properties of the snapshot                                              *)
(***************************************************************************)
Built == graph.op = "build" /\ graph.body.ok

nodeIds(g) == {g.nodes[k].id : k \in DOMAIN g.nodes}
edgesOfKind(g, kind) == {k \in DOMAIN g.edges : g.edges[k].kind = kind}
videoNodesOf(g) == {k \in DOMAIN g.nodes : g.nodes[k].type = "video"}
entityNodesOf(g) == {k \in DOMAIN g.nodes : g.nodes[k].type # "video"}

\* the rows a call was given, in the order given
inputRows(g) == [i \in 1..Len(g.input) |-> videos[g.input[i]]]

\* C1: in every snapshot buildGraphFromVideos returns, both endpoints of every
\* edge (co-occurs, appears-in, document-similarity) are ids of nodes of that
\* snapshot
C1_NoDanglingEdges ==
    Built => \A k \in DOMAIN graph.body.edges :
                 /\ graph.body.edges[k].source \in nodeIds(graph.body)
                 /\ graph.body.edges[k].target \in nodeIds(graph.body)

\* a snapshot with an edge of each of the three kinds
C1_Witness ==
    /\ Built
    /\ edgesOfKind(graph.body, "co-occurs") # {}
    /\ edgesOfKind(graph.body, "appears-in") # {}
    /\ edgesOfKind(graph.body, "document-similarity") # {}


\* what a comparison of two snapshots looks at: the nodes by id and type, the
\* edges by kind, end points (in either direction), type and weight
nodeSet(g) == {[id |-> g.nodes[k].id, type |-> g.nodes[k].type] : k \in DOMAIN g.nodes}
edgeSet(g) ==
    {[kind |-> g.edges[k].kind, ends |-> {g.edges[k].source, g.edges[k].target},
      type |-> g.edges[k].type, weight |-> g.edges[k].weight] : k \in DOMAIN g.edges}

\* C2: for a fixed set of documents two calls of buildGraphFromVideos, with the
\* documents in the same or in another order, yield the same node set and the
\* same edge set (ids, entity types, weights)
C2_OrderIndependent ==
    Built =>
        \A order \in Orders(Len(graph.input)) :
            \A again \in {buildGraphFromVideos(
                             [i \in 1..Len(order) |-> videos[graph.input[order[i]]]])} :
                /\ again.ok
                /\ nodeSet(again) = nodeSet(graph.body)
                /\ edgeSet(again) = edgeSet(graph.body)

\* the mentions of a row that reach deduplicateEntities in buildGraphFromVideos
rowMentions(video) ==
    LET s == video.summaryJson
        kp == s.value.keyPoints
    IN  IF summaryTruthy(s) /\ s.parses /\ kpTruthy(kp) /\ kpLength(kp) > 0
        THEN keyPointMentions([i \in 1..Len(kp.items) |-> kp.items[i].text], video.id)
        ELSE <<>>

\* the normalized phrase of a mention: its words in lower case, one blank between
phraseOf(mention) == toLowerCase(mention.label)

\* C4: no two entity nodes of a snapshot share a normalized phrase: the mentions
\* of one normalized phrase, within and across documents, are all merged into one
\* entity node, and mentions of different normalized phrases are never merged
C4_OneNodePerPhrase ==
    Built =>
        LET g == graph.body
            rows == inputRows(graph)
            raw == Flatten([i \in 1..Len(rows) |-> rowMentions(rows[i])])
            nodeOf(m) == {k \in entityNodesOf(g) : g.nodes[k].id = m.id}
        IN  /\ \A k1, k2 \in entityNodesOf(g) : g.nodes[k1].id = g.nodes[k2].id => k1 = k2
            /\ \A i \in DOMAIN raw : Cardinality(nodeOf(raw[i])) = 1
            /\ \A i, j \in DOMAIN raw :
                   (nodeOf(raw[i]) = nodeOf(raw[j]))
                       <=> (phraseOf(raw[i]) = phraseOf(raw[j]))

\* a document without signal: no summary, or a summary without key points
noKeyPoints(video) ==
    \/ video.summaryJson = SqlNull
    \/ video.summaryJson = NoKeyPointsSummary
    \/ video.summaryJson = JsonText(JsonObject(KeyPointList(<<>>)))

\* the table in which the malformed documents have no key points
cleaned(table) ==
    [i \in 1..Len(table) |->
        IF table[i].summaryJson \in MalformedSummaries
        THEN [table[i] EXCEPT !.summaryJson = NoKeyPointsSummary]
        ELSE table[i]]

\* C8: building the graph, by GET /api/graph or by buildGraphFromVideos on the
\* rows as stored, never fails because a stored summary is malformed; the
\* malformed document yields no mention and the snapshot is the one of the table
\* in which that document has no key points
C8_MalformedIsSkipped ==
    graph.op = "get" =>
        /\ graph.status = 200
        /\ graph.body = graphHandler(cleaned(videos), graph.where).body
        /\ \A direct \in {buildGraphFromVideos(inputRows(graph))} :
               /\ direct.ok
               /\ direct = buildGraphFromVideos(cleaned(inputRows(graph)))

\* C9: every input document is exactly one video node of the snapshot; a
\* document with no summary or no key points is a node as well, no entity lists
\* it as a source and no edge has it as an end point
C9_OneNodePerDocument ==
    Built =>
        LET g == graph.body
            rows == inputRows(graph)
        IN  /\ Cardinality(videoNodesOf(g)) = Len(rows)
            /\ \A i \in DOMAIN rows :
                   /\ Cardinality({k \in videoNodesOf(g) :
                                       g.nodes[k].videoId = rows[i].id}) = 1
                   /\ noKeyPoints(rows[i]) =>
                          /\ \A k \in entityNodesOf(g) :
                                 /\ g.nodes[k].sourceVideo # rows[i].id
                                 /\ rows[i].id \notin Range(g.nodes[k].sourceVideos)
                          /\ \A k \in DOMAIN g.edges :
                                 /\ g.edges[k].source # videoNodeId(rows[i].id)
                                 /\ g.edges[k].target # videoNodeId(rows[i].id)

\* a document without key points beside one that has entities, in a snapshot
\* with edges
C9_Witness ==
    /\ Built
    /\ \E i \in DOMAIN videos : i \in Range(graph.input) /\ noKeyPoints(videos[i])
    /\ entityNodesOf(graph.body) # {}
    /\ graph.body.edges # <<>>

\* the entity ids a document produces
documentEntityIds(video) ==
    LET raw == rowMentions(video)
    IN  {raw[i].id : i \in DOMAIN raw}

ExtractCatalog ==
    {"React is a JavaScript library", "useState manages state", "React version",
     "Api_key api key", "Next.js 13.4 uses the REST API", "the cat sat",
     "React Api", "Platform Update adds a Feature for the Developer",
     "Feature of a Tool by its Author", "Tool of the Creator", "Creator Api"}

ExtractLists == UNION {[1..n -> ExtractCatalog] : n \in 0..MaxKeyPoints}

\* the key points of the document of the run
documentKeyPoints ==
    LET kp == videos[1].summaryJson.value.keyPoints
    IN  [i \in 1..Len(kp.items) |-> kp.items[i].text]

ExtractInit ==
    /\ page = NoPage
    /\ \E id \in VideoIds, kps \in ExtractLists :
           videos = <<Row(id, Text("react hooks tutorial"),
                          JsonText(JsonObject(KeyPointList(
                              [i \in 1..Len(kps) |-> StrItem(kps[i])]))))>>
    /\ entities = <<>>
    /\ calls = 0
    /\ mentions = <<>>
    /\ entitiesEarlier = <<>>
    /\ graph = None
    /\ cache = EmptyCache
    /\ RebuildIdle

\* knowledgeGraphService.extractEntitiesFromKeyPoints(summaryJson.keyPoints,
\* video.id, video.title) (lines 567-571)
Extract ==
    /\ calls = 0
    /\ entities' = extractEntitiesFromKeyPoints(documentKeyPoints, videos[1].id)
    /\ calls' = 1
    /\ UNCHANGED <<page, mentions, entitiesEarlier, graphVars, cache, rebuildVars>>

ExtractNext == Extract

SpecExtract == ExtractInit /\ [][ExtractNext]_vars


\* C11: the document with the key points "React is a JavaScript library" and
\* "useState manages state" yields at least the entities React and JavaScript
C11_SingleDocumentExtraction ==
    (calls = 1 /\ documentKeyPoints = <<"React is a JavaScript library",
                                        "useState manages state">>)
        => /\ \E k \in DOMAIN entities : entities[k].id = "entity_react"
           /\ \E k \in DOMAIN entities :
                  \/ entities[k].id = "entity_javascript"
                  \/ toLowerCase(entities[k].label) = "javascript"

\* the entities of the run that were first pushed for the key point at the
\* 0-based position index (the Map keeps the first object of an id)
entitiesOfKeyPoint(index) ==
    {entities[k] : k \in {j \in DOMAIN entities : entities[j].keyPointIndex = index}}

\* a bigram or trigram candidate: its phrase, and so its label, has a blank
isNGram(entity) == includes(entity.label, " ")

\* C21: a key point with fewer than 3 usable words (lowercased, stop words and
\* words of length <= 2 dropped) yields no bigram and no trigram entity
C21_ShortKeyPointHasNoNGram ==
    calls = 1
        => \A p \in DOMAIN documentKeyPoints :
               Len(keyPointWords(documentKeyPoints[p])) < 3
                   => \A entity \in entitiesOfKeyPoint(p - 1) : ~isNGram(entity)

\* the indicators of detectEntityType: substrings of the lowercased key point
\* (context) or of the lowercased phrase
technologyContextTerms == {"version", "update", "release"}
technologyPhraseTerms == {"ai", "model", "api"}
featureTerms == {"feature", "capability", "functionality", "mode"}
toolTerms == {"tool", "platform", "service", "application"}
personTerms == {"author", "creator", "developer"}

matchesAny(text, terms) == \E t \in terms : includes(toLowerCase(text), t)

technologyIndicator(phrase, context) ==
    matchesAny(context, technologyContextTerms) \/ matchesAny(phrase, technologyPhraseTerms)

\* the phrase and the key point an entity of the run got its type from: those
\* of its first mention
phraseOfEntity(entity) == toLowerCase(entity.label)
contextOfEntity(entity) == documentKeyPoints[entity.keyPointIndex + 1]

\* C23: detectEntityType gives a mention exactly one type, by first match in the
\* order technology, feature, tool, person: technology whenever a technology
\* indicator matches, whatever else matches, and so on down the order; concept
\* only when no indicator matches
C23_TypeByPriority ==
    calls = 1 =>
        \A k \in DOMAIN entities :
            LET phrase == phraseOfEntity(entities[k])
                context == contextOfEntity(entities[k])
                technology == technologyIndicator(phrase, context)
                feature == matchesAny(context, featureTerms)
                tool == matchesAny(context, toolTerms)
                person == matchesAny(context, personTerms)
                type == entities[k].type
            IN  /\ type \in {"technology", "feature", "tool", "person", "concept"}
                /\ type = "technology" <=> technology
                /\ type = "feature" <=> (~technology /\ feature)
                /\ type = "tool" <=> (~technology /\ ~feature /\ tool)
                /\ type = "person" <=> (~technology /\ ~feature /\ ~tool /\ person)
                /\ type = "concept" <=> ~(technology \/ feature \/ tool \/ person)

\* a run with a technology entity whose key point also has feature, tool and
\* person indicators, a feature entity whose key point also has tool and person
\* indicators
C23_Witness ==
    /\ calls = 1
    /\ \E k \in DOMAIN entities :
           /\ entities[k].type = "technology"
           /\ matchesAny(contextOfEntity(entities[k]), featureTerms)
           /\ matchesAny(contextOfEntity(entities[k]), toolTerms)
           /\ matchesAny(contextOfEntity(entities[k]), personTerms)
    /\ \E k \in DOMAIN entities :
           /\ entities[k].type = "feature"
           /\ matchesAny(contextOfEntity(entities[k]), toolTerms)
           /\ matchesAny(contextOfEntity(entities[k]), personTerms)

(***************************************************************************)
(* Specification of the library: videos are processed and deleted, the     *)
(* stored relationships are rebuilt and read                               *)
(***************************************************************************)
\* what processVideo can store for a video: the transcription, and the summary
\* when generateSummary did not throw
LibraryContents ==
    {<<Text("react hooks state guide"), SqlNull>>,
     <<Text("react hooks state guide"),
       JsonText(JsonObject(KeyPointList(<<StrItem("React hooks")>>)))>>,
     <<Text("react tutorial"),
       JsonText(JsonObject(KeyPointList(
           <<StrItem("hooks state props context reducer effects")>>)))>>}

\* the rows POST /api/videos has created (part_008 85-147): nothing fetched yet
LibraryTables ==
    {[i \in 1..n |-> Row(i, NullText, SqlNull)] : n \in 0..MaxVideos}

LibraryInit ==
    /\ page = NoPage
    /\ videos \in LibraryTables
    /\ rag = NoRag
    /\ kg = [id \in VideoIds |-> NoGraphRow]
    /\ rebuild = NoRebuild
    /\ response = NoResponse
    /\ cache = EmptyCache
    /\ calls = 0
    /\ graph = None
    /\ ResolverIdle

\* processVideo(videoId) (part_008 288-468) for a video not processed yet: the
\* transcription and the summary are stored in the row, then the video is
\* indexed and its relationships are stored
ProcessVideo(id, content) ==
    /\ rebuild.pc # "running"
    /\ \E k \in DOMAIN videos :
           /\ videos[k].id = id
           /\ videos[k].transcription.isNull
           /\ \E row \in {Row(id, content[1], content[2])} :
              \E processed \in {processOne([rag |-> rag, kg |-> kg], row)} :
                  /\ videos' = [videos EXCEPT ![k] = row]
                  /\ rag' = processed.rag
                  /\ kg' = processed.kg
    /\ UNCHANGED <<page, graph, calls, cache, resolverVars, rebuild, response>>

\* DELETE /api/videos/:id (part_008 270-283): the row is deleted and the video
\* is taken out of the index.  Whether the knowledgeGraph row of the video goes
\* with it is for the database schema to say: both outcomes are taken.  The
\* rows of the other videos are not looked at
DeleteVideo(id) ==
    /\ rebuild.pc # "running"
    /\ findUnique(videos, id) # <<>>
    /\ videos' = SelectSeq(videos, LAMBDA v : v.id # id)
    /\ rag' = removeVideo(rag, id)
    /\ \E row \in {kg[id], NoGraphRow} : kg' = [kg EXCEPT ![id] = row]
    /\ UNCHANGED <<page, graph, calls, cache, resolverVars, rebuild, response>>

LibraryNext ==
    \/ \E id \in VideoIds, content \in LibraryContents : ProcessVideo(id, content)
    \/ \E id \in VideoIds : DeleteVideo(id)
    \/ RebuildStart
    \/ RebuildStep
    \/ RebuildFinish
    \/ \E id \in VideoIds : GetRelationships(id)

SpecLibrary == LibraryInit /\ [][LibraryNext]_vars

\* the relationships stored for the videos
storedRelationships ==
    UNION {Range(kg[id].relationships) : id \in {i \in DOMAIN kg : kg[i].exists}}

\* C12: the similarity of every relationship buildRelationships produces lies
\* in [0,1], whatever the number of common themes
C12_SimilarityInUnitInterval ==
    \A rel \in storedRelationships :
        /\ rel.similarity.den > 0
        /\ 0 <= rel.similarity.num
        /\ rel.similarity.num <= rel.similarity.den

\* the relationships of a list that point at a video
relationshipsTo(list, id) == {list[k] : k \in {i \in DOMAIN list : list[i].targetVideoId = id}}

\* C13: relationships are symmetric: for two indexed documents A and B,
\* buildRelationships(A) has a relationship to B if and only if
\* buildRelationships(B) has one to A, with the same similarity and type
C13_RelationshipsSymmetric ==
    \A a, b \in DOMAIN videos :
        (/\ a < b
         /\ has(rag.embeddings, videos[a].id)
         /\ has(rag.embeddings, videos[b].id))
        => \A ofA \in {buildRelationships(rag, videos[a].id, parsedSummary(videos[a]))} :
           \A ofB \in {buildRelationships(rag, videos[b].id, parsedSummary(videos[b]))} :
               (~ofA.threw /\ ~ofB.threw) =>
                   LET toB == relationshipsTo(ofA.relationships, videos[b].id)
                       toA == relationshipsTo(ofB.relationships, videos[a].id)
                   IN  /\ (toB = {}) <=> (toA = {})
                       /\ \A x \in toB, y \in toA :
                              /\ x.similarity.num * y.similarity.den
                                     = y.similarity.num * x.similarity.den
                              /\ x.type = y.type

\* C14: every relationship GET /api/graph/relationships/:id returns carries the
\* display metadata of the peer video: no stored relationship points at a
\* video that is not there any more
C14_PeerMetadataPresent ==
    (response.op = "relationships" /\ response.status = 200) =>
        \A k \in DOMAIN response.body.relationships :
            response.body.relationships[k].video.found

(***************************************************************************)
(* The graph page of the frontend (app/graph/page.tsx): the projections of *)
(* a snapshot.  A projection is handed the object data; what it returns is *)
(* kept with the object as the call leaves it                              *)
(***************************************************************************)
\* order of the UTF-16 code units of the characters of an id (Array.prototype.sort
\* without a comparator), and order of a collation of the same characters
\* (String.prototype.localeCompare): punctuation, digits, letters
CodeUnitOrder == Digits \o UpperAlpha \o "_" \o LowerAlpha
CollationOrder == "_" \o Digits \o LowerAlpha

rankIn(order, c) ==
    IF \E i \in 1..Len(order) : CharAt(order, i) = c
    THEN CHOOSE i \in 1..Len(order) : CharAt(order, i) = c
    ELSE 0

\* a < b, character by character in the order given
RECURSIVE lessFrom(_, _, _, _)
lessFrom(order, a, b, i) ==
    IF i > Len(a) THEN i <= Len(b)
    ELSE IF i > Len(b) THEN FALSE
    ELSE IF CharAt(a, i) = CharAt(b, i) THEN lessFrom(order, a, b, i + 1)
    ELSE rankIn(order, CharAt(a, i)) < rankIn(order, CharAt(b, i))

\* [a, b].sort()
sortPair(a, b) == IF lessFrom(CodeUnitOrder, b, a, 1) THEN <<b, a>> ELSE <<a, b>>

\* s.split('-')
RECURSIVE splitDashFrom(_, _, _)
splitDashFrom(s, i, cur) ==
    IF i > Len(s) THEN <<cur>>
    ELSE IF CharAt(s, i) = "-"
         THEN <<cur>> \o splitDashFrom(s, i + 1, "")
         ELSE splitDashFrom(s, i + 1, cur \o CharAt(s, i))

\* data.nodes.find(n => n.id === id)?.type, "undefined" when there is no such node
typeOfNode(data, id) ==
    LET hits == SelectSeq(data.nodes, LAMBDA n : n.id = id)
    IN  IF hits = <<>> THEN "undefined" ELSE hits[1].type

\* an edge a projection makes
ViewEdge(source, target, type, similarity, weight, reason) ==
    [source |-> source, target |-> target, type |-> type, similarity |-> similarity,
     weight |-> weight, reason |-> reason]

\* lines 93-109: the pushes into entityByVideo, in the order of the edges; the
\* id of the entity pushed is kept ("" for undefined)
entityByVideoPushes(data) ==
    Flatten([k \in DOMAIN data.edges |->
        LET edge == data.edges[k]
            source == typeOfNode(data, edge.source)
            target == typeOfNode(data, edge.target)
        IN  (IF source = "video" /\ target # "video"
             THEN <<[video |-> edge.source,
                     entity |-> IF target = "undefined" THEN "" ELSE edge.target]>>
             ELSE <<>>)
            \o (IF target = "video" /\ source # "video"
                THEN <<[video |-> edge.target,
                        entity |-> IF source = "undefined" THEN "" ELSE edge.source]>>
                ELSE <<>>)])

\* lines 112-119: the edge keys counted, in the order of the loops
cooccurrenceKeys(pushes) ==
    LET videoIds == firstOccurrences(<<>>, [k \in DOMAIN pushes |-> pushes[k].video])
        entitiesOf(v) == LET hits == SelectSeq(pushes, LAMBDA p : p.video = v)
                         IN  [k \in DOMAIN hits |-> hits[k].entity]
        keysOf(list) ==
            Flatten([i \in DOMAIN list |->
                Flatten([j \in DOMAIN list |->
                    IF j > i THEN <<join(sortPair(list[i], list[j]), "-")>>
                    ELSE <<>>])])
    IN  Flatten([v \in DOMAIN videoIds |-> keysOf(entitiesOf(videoIds[v]))])

\* buildCooccurrenceGraph returning every entity node, connected or not
buildCooccurrenceGraph_unpruned(data) ==
    LET entityNodes == SelectSeq(data.nodes, LAMBDA n : n.type # "video")
        pushes == entityByVideoPushes(data)
        counted == cooccurrenceKeys(pushes)
        edgeKeys == firstOccurrences(<<>>, counted)
        count(edgeKey) == Cardinality({k \in DOMAIN counted : counted[k] = edgeKey})
        cooccurrenceEdges ==
            [k \in DOMAIN edgeKeys |->
                LET parts == splitDashFrom(edgeKeys[k], 1, "")
                    n == count(edgeKeys[k])
                IN  ViewEdge(parts[1], IF Len(parts) > 1 THEN parts[2] ELSE "",
                             "cooccurs",
                             [num |-> IF n > 3 THEN 3 ELSE n, den |-> 3], n,
                             "Co-occur in " \o ToString(n) \o " video(s)")]
        connectedNodeIds == {cooccurrenceEdges[k].source : k \in DOMAIN cooccurrenceEdges}
                                \cup {cooccurrenceEdges[k].target :
                                          k \in DOMAIN cooccurrenceEdges}
        connectedNodes == entityNodes
        undefinedPaired ==
            \E p \in Range(pushes) :
                /\ p.entity = ""
                /\ Cardinality({k \in DOMAIN pushes : pushes[k].video = p.video}) > 1
    IN  [data |-> data,
         threw |-> undefinedPaired,
         view |-> IF undefinedPaired THEN Failure
                  ELSE [ok |-> TRUE, nodes |-> connectedNodes, edges |-> cooccurrenceEdges,
                        stats |-> [nodes |-> Len(connectedNodes),
                                   edges |-> Len(cooccurrenceEdges),
                                   graphType |-> "Co-occurrence"] @@ data.stats]]

\* buildCooccurrenceGraph (lines 83-153); entities[i].id of an undefined entity
\* is a TypeError (threw)
buildCooccurrenceGraph(data) ==
    LET entityNodes == SelectSeq(data.nodes, LAMBDA n : n.type # "video")
        pushes == entityByVideoPushes(data)
        counted == cooccurrenceKeys(pushes)
        edgeKeys == firstOccurrences(<<>>, counted)
        count(edgeKey) == Cardinality({k \in DOMAIN counted : counted[k] = edgeKey})
        cooccurrenceEdges ==
            [k \in DOMAIN edgeKeys |->
                LET parts == splitDashFrom(edgeKeys[k], 1, "")
                    n == count(edgeKeys[k])
                IN  ViewEdge(parts[1], IF Len(parts) > 1 THEN parts[2] ELSE "",
                             "cooccurs",
                             [num |-> IF n > 3 THEN 3 ELSE n, den |-> 3], n,
                             "Co-occur in " \o ToString(n) \o " video(s)")]
        connectedNodeIds == {cooccurrenceEdges[k].source : k \in DOMAIN cooccurrenceEdges}
                                \cup {cooccurrenceEdges[k].target :
                                          k \in DOMAIN cooccurrenceEdges}
        connectedNodes == SelectSeq(entityNodes, LAMBDA n : n.id \in connectedNodeIds)
        undefinedPaired ==
            \E p \in Range(pushes) :
                /\ p.entity = ""
                /\ Cardinality({k \in DOMAIN pushes : pushes[k].video = p.video}) > 1
    IN  [data |-> data,
         threw |-> undefinedPaired,
         view |-> IF undefinedPaired THEN Failure
                  ELSE [ok |-> TRUE, nodes |-> connectedNodes, edges |-> cooccurrenceEdges,
                        stats |-> [nodes |-> Len(connectedNodes),
                                   edges |-> Len(cooccurrenceEdges),
                                   graphType |-> "Co-occurrence"] @@ data.stats]]

\* videoNodes.sort((a, b) => (a.createdAt || a.id).localeCompare(b.createdAt || b.id)):
\* a node has no createdAt, the sort is stable
sortByOrderingKey(list) ==
    LET before(j, i) == \/ lessFrom(CollationOrder, list[j].id, list[i].id, 1)
                        \/ /\ ~lessFrom(CollationOrder, list[i].id, list[j].id, 1)
                           /\ j < i
        rank(i) == Cardinality({j \in DOMAIN list : before(j, i)})
    IN  [r \in 1..Len(list) |-> list[CHOOSE i \in DOMAIN list : rank(i) = r - 1]]

\* lines 166-175: the chain through the video nodes
chainEdges(videoNodes) ==
    [i \in 1..(Len(videoNodes) - 1) |->
        ViewEdge(videoNodes[i].id, videoNodes[i + 1].id, "sequence",
                 [num |-> 1, den |-> 2], 0, "Sequential order")]

\* lines 178-186: the edges of data between a video and something that is not one
videoEntityEdges(data) ==
    SelectSeq(data.edges,
              LAMBDA edge :
                  LET source == typeOfNode(data, edge.source)
                      target == typeOfNode(data, edge.target)
                  IN  \/ source = "video" /\ target # "video"
                      \/ target = "video" /\ source # "video")

\* buildSequenceGraph chaining the video nodes in the order of data.nodes
buildSequenceGraph_unsorted(data) ==
    LET videoNodes == SelectSeq(data.nodes, LAMBDA n : n.type = "video")
        entityNodes == SelectSeq(data.nodes, LAMBDA n : n.type # "video")
        sequenceEdges == chainEdges(videoNodes) \o videoEntityEdges(data)
    IN  [data |-> data,
         threw |-> FALSE,
         view |-> [ok |-> TRUE, nodes |-> videoNodes \o entityNodes,
                   edges |-> sequenceEdges,
                   stats |-> [graphType |-> "Sequence"] @@ data.stats]]

\* buildSequenceGraph with the new edges pushed onto data.edges itself
buildSequenceGraph_sharedEdges(data) ==
    LET videoNodes == sortByOrderingKey(SelectSeq(data.nodes, LAMBDA n : n.type = "video"))
        entityNodes == SelectSeq(data.nodes, LAMBDA n : n.type # "video")
        sequenceEdges == data.edges \o chainEdges(videoNodes) \o videoEntityEdges(data)
    IN  [data |-> [data EXCEPT !.edges = sequenceEdges],
         threw |-> FALSE,
         view |-> [ok |-> TRUE, nodes |-> videoNodes \o entityNodes,
                   edges |-> sequenceEdges,
                   stats |-> [graphType |-> "Sequence"] @@ data.stats]]

\* buildSequenceGraph (lines 155-196): filter gives new arrays, so the sort and
\* the pushes leave data.nodes and data.edges alone
buildSequenceGraph(data) ==
    LET videoNodes == sortByOrderingKey(SelectSeq(data.nodes, LAMBDA n : n.type = "video"))
        entityNodes == SelectSeq(data.nodes, LAMBDA n : n.type # "video")
        sequenceEdges == chainEdges(videoNodes) \o videoEntityEdges(data)
    IN  [data |-> data,
         threw |-> FALSE,
         view |-> [ok |-> TRUE, nodes |-> videoNodes \o entityNodes,
                   edges |-> sequenceEdges,
                   stats |-> [graphType |-> "Sequence"] @@ data.stats]]

GraphTypes == {"knowledge", "cooccurrence", "sequence"}

\* transformGraphData (lines 70-81); a body without nodes is returned as it is
transformGraphData(originalData, graphType) ==
    IF ~originalData.ok THEN [data |-> originalData, threw |-> FALSE, view |-> originalData]
    ELSE CASE graphType = "cooccurrence" -> buildCooccurrenceGraph(originalData)
           [] graphType = "sequence" -> buildSequenceGraph(originalData)
           [] OTHER -> [data |-> originalData, threw |-> FALSE, view |-> originalData]

(***************************************************************************)
(* Specification of the projections: the page loads a snapshot and the     *)
(* projections are applied to it                                           *)
(***************************************************************************)
\* the tables of these runs: the rows in any order (findMany has no orderBy),
\* each with no summary or with one key point
ProjectionTables ==
    UNION {{[i \in 1..n |-> Row(order[i], Text("react hooks tutorial"), ss[i])] :
               order \in Orders(n),
               ss \in [1..n -> {SqlNull} \cup
                          {JsonText(JsonObject(KeyPointList(<<StrItem(point)>>))) :
                               point \in KeyPointCatalog}]} : n \in 0..MaxVideos}

ProjectionInit ==
    /\ page = NoPage
    /\ videos \in ProjectionTables
    /\ graph = None
    /\ calls = 0
    /\ cache = EmptyCache
    /\ ResolverIdle
    /\ RebuildIdle

\* loadData (lines 198-219): the snapshot GET /api/graph answers with becomes
\* the data of the page; a response with an error status rejects and the page
\* keeps what it has
LoadData(categoryId) ==
    /\ ~page.loaded
    /\ LET url == graphUrl(categoryId)
           found == findMany(videos, categoryId)
       IN  \E sent \in {IF cache[url].present
                        THEN [status |-> 200, body |-> cache[url].body]
                        ELSE graphHandler(videos, categoryId)} :
               /\ graph' = [op |-> "get", where |-> categoryId,
                            input |-> [i \in 1..Len(found) |-> found[i].id],
                            status |-> sent.status, body |-> sent.body]
               /\ cache' = [cache EXCEPT ![url] = Entry(sent.body)]
               /\ page' = IF sent.status = 200
                          THEN [loaded |-> TRUE, fetched |-> sent.body,
                                data |-> sent.body, views |-> <<>>]
                          ELSE page
    /\ UNCHANGED <<videos, calls, resolverVars, rebuildVars>>

\* transformGraphData(data, graphType) on the data loaded
Transform(graphType) ==
    /\ page.loaded
    /\ Len(page.views) < MaxCalls
    /\ \E made \in {transformGraphData(page.data, graphType)} :
           page' = [page EXCEPT !.data = made.data,
                                !.views = Append(@, [graphType |-> graphType,
                                                     threw |-> made.threw,
                                                     view |-> made.view])]
    /\ UNCHANGED <<videos, graph, calls, cache, resolverVars, rebuildVars>>

ProjectionNext ==
    \/ \E categoryId \in {""} \cup Range(Categories) : LoadData(categoryId)
    \/ \E graphType \in GraphTypes : Transform(graphType)

SpecProjection == ProjectionInit /\ [][ProjectionNext]_vars

\* the counts the stats of a snapshot give for its nodes and its edges
nodeCount(stats) == IF "nodes" \in DOMAIN stats THEN stats.nodes ELSE stats.totalNodes
edgeCount(stats) == IF "edges" \in DOMAIN stats THEN stats.edges ELSE stats.totalEdges

\* C15: in every snapshot, the base one and the co-occurrence and sequence
\* projections, the node and edge counts of the stats are the sizes of the
\* node list and of the edge list of that snapshot
C15_StatsMatchLists ==
    /\ (page.loaded /\ page.fetched.ok) =>
           /\ nodeCount(page.fetched.stats) = Len(page.fetched.nodes)
           /\ edgeCount(page.fetched.stats) = Len(page.fetched.edges)
    /\ \A k \in DOMAIN page.views :
           page.views[k].view.ok =>
               /\ nodeCount(page.views[k].view.stats) = Len(page.views[k].view.nodes)
               /\ edgeCount(page.views[k].view.stats) = Len(page.views[k].view.edges)

\* C17: a projection applied twice to the same base snapshot gives the same
\* result, and no projection changes the base snapshot: its node list, its
\* edge list and the nodes and edges in them stay as they were loaded
C17_ProjectionsArePure ==
    /\ page.loaded => page.data = page.fetched
    /\ \A j, k \in DOMAIN page.views :
           page.views[j].graphType = page.views[k].graphType
               => page.views[j] = page.views[k]

\* a base snapshot with edges has been projected twice the same way, to a view
\* with edges
C17_Witness ==
    /\ page.loaded
    /\ page.fetched.edges # <<>>
    /\ \E j, k \in DOMAIN page.views :
           /\ j < k
           /\ page.views[j].graphType = page.views[k].graphType
           /\ page.views[j].graphType # "knowledge"
           /\ page.views[j].view.edges # <<>>

(***************************************************************************)
(* Specification of GET /api/graph while the document set changes: videos  *)
(* are added, processed and deleted between the requests                   *)
(***************************************************************************)
ChangingInit ==
    /\ page = NoPage
    /\ videos = <<>>
    /\ calls = 0
    /\ graph = None
    /\ cache = EmptyCache
    /\ rag = NoRag
    /\ kg = [id \in VideoIds |-> NoGraphRow]
    /\ rebuild = NoRebuild
    /\ response = NoResponse
    /\ ResolverIdle

\* POST /api/videos (part_008 85-147): a row with a new id, nothing fetched
\* yet; calls counts the rows created
AddVideo ==
    /\ calls < MaxVideos
    /\ videos' = Append(videos, Row(calls + 1, NullText, SqlNull))
    /\ calls' = calls + 1
    /\ UNCHANGED <<page, graph, cache, resolverVars, rebuildVars>>

ChangingNext ==
    \/ AddVideo
    \/ \E id \in VideoIds, content \in LibraryContents : ProcessVideo(id, content)
    \/ \E id \in VideoIds : DeleteVideo(id)
    \/ \E categoryId \in {""} \cup Range(Categories) : GetGraph(categoryId)
    \/ \E url \in Urls : Expire(url)

SpecChanging == ChangingInit /\ [][ChangingNext]_vars

\* the videos that have a node in a response body
videosIn(body) == {body.nodes[k].videoId : k \in videoNodesOf(body)}

\* C16: the graph GET /api/graph answers with is the assembly of the current
\* document set: a response with status 200 has no node for a video that has
\* been deleted, and has the node of every video that has been added and
\* processed (in the category asked for)
C16_GraphIsCurrent ==
    [][(graph' # graph /\ graph'.op = "get" /\ graph'.status = 200)
           => LET found == Range(findMany(videos', graph'.where))
              IN  /\ videosIn(graph'.body) \subseteq {v.id : v \in found}
                  /\ {v.id : v \in {w \in found : ~w.transcription.isNull}}
                         \subseteq videosIn(graph'.body)]_vars

(***************************************************************************)
(* Specification of the snapshot of documents that share entities:         *)
(* buildGraphFromVideos applied to tables whose key points have words in   *)
(* common                                                                  *)
(***************************************************************************)
SharedCatalog == {"React", "React Api", "React Api sdk"}

\* the tables of these runs: each row without summary, without key points or
\* with one key point
SharedTables ==
    UNION {{[i \in 1..n |-> Row(i, Text("react hooks tutorial"), ss[i])] :
               ss \in [1..n -> {SqlNull, NoKeyPointsSummary} \cup
                          {JsonText(JsonObject(KeyPointList(<<StrItem(point)>>))) :
                               point \in SharedCatalog}]} : n \in 0..MaxVideos}

SharedInit ==
    /\ page = NoPage
    /\ videos \in SharedTables
    /\ graph = None
    /\ calls = 0
    /\ cache = EmptyCache
    /\ ResolverIdle
    /\ RebuildIdle

SpecShared == SharedInit /\ [][GraphNext]_vars

\* the co-occurs edges of a snapshot between two entities, in either direction
coOccursBetween(g, id1, id2) ==
    {k \in edgesOfKind(g, "co-occurs") :
        {g.edges[k].source, g.edges[k].target} = {id1, id2}}

\* C18: for every two distinct entities mentioned in the same document at
\* key-point indices that differ by d <= 2, the snapshot has a co-occurs edge
\* between them with weight 1/(d+1); the weight does not depend on which of
\* the two is the source
C18_CoOccursEdges ==
    Built =>
        LET g == graph.body
            rows == inputRows(graph)
        IN  \A i \in DOMAIN rows : \A raw \in {rowMentions(rows[i])} :
                \A a, b \in DOMAIN raw :
                    LET d == abs(raw[a].keyPointIndex - raw[b].keyPointIndex)
                    IN  (raw[a].id # raw[b].id /\ d <= 2) =>
                            /\ \E k \in coOccursBetween(g, raw[a].id, raw[b].id) :
                                   g.edges[k].weight.num * (d + 1) = g.edges[k].weight.den
                            /\ \A k1, k2 \in coOccursBetween(g, raw[a].id, raw[b].id) :
                                   g.edges[k1].weight = g.edges[k2].weight

\* the documents of the input an entity id is extracted from
sourceDocuments(rows, id) == {rows[i].id : i \in {j \in DOMAIN rows : id \in documentEntityIds(rows[j])}}

\* C19: an entity with n > 1 source documents has n(n-1) appears-in edges of
\* weight 0.8, n-1 of them to each of its source documents; an entity with one
\* source document has none
C19_AppearsInEdges ==
    Built =>
        LET g == graph.body
        IN  \A rows \in {inputRows(graph)} : \A e \in entityNodesOf(g) :
            \A sources \in {sourceDocuments(rows, g.nodes[e].id)} :
                LET n == Cardinality(sources)
                    out == {k \in edgesOfKind(g, "appears-in") :
                               g.edges[k].source = g.nodes[e].id}
                IN  /\ Cardinality(out) = IF n > 1 THEN n * (n - 1) ELSE 0
                    /\ \A k \in out : g.edges[k].weight = [num |-> 4, den |-> 5]
                    /\ n > 1 =>
                           \A v \in sources :
                               Cardinality({k \in out : g.edges[k].target = videoNodeId(v)})
                                   = n - 1

\* an entity of two or more documents beside an entity of one document
C19_Witness ==
    /\ Built
    /\ edgesOfKind(graph.body, "appears-in") # {}
    /\ \E e \in entityNodesOf(graph.body) :
           \A k \in edgesOfKind(graph.body, "appears-in") :
               graph.body.edges[k].source # graph.body.nodes[e].id

\* C20: for every two documents of the input there is exactly one
\* document-similarity edge if they share an entity and none otherwise; it is
\* strong if and only if the Jaccard ratio of their entity-id sets is > 0.3,
\* sharedEntities is the size of the intersection, and each shared entity has
\* an appears-in edge to each of the two documents
C20_DocumentSimilarityEdges ==
    Built =>
        LET g == graph.body
        IN  \A rows \in {inputRows(graph)} :
            \A i \in DOMAIN rows : \A ids1 \in {documentEntityIds(rows[i])} :
            \A j \in {k \in DOMAIN rows : k > i} : \A ids2 \in {documentEntityIds(rows[j])} :
                LET between == {k \in edgesOfKind(g, "document-similarity") :
                                   {g.edges[k].source, g.edges[k].target}
                                       = {videoNodeId(rows[i].id), videoNodeId(rows[j].id)}}
                    shared == ids1 \cap ids2
                IN  IF shared = {} THEN between = {}
                    ELSE /\ Cardinality(between) = 1
                         /\ \A k \in between :
                                /\ g.edges[k].type \in {"strong", "moderate"}
                                /\ g.edges[k].type = "strong"
                                       <=> 10 * Cardinality(shared)
                                               > 3 * Cardinality(ids1 \cup ids2)
                                /\ g.edges[k].sharedEntities = Cardinality(shared)
                         /\ \A id \in shared : \A v \in {rows[i].id, rows[j].id} :
                                \E k \in edgesOfKind(g, "appears-in") :
                                    /\ g.edges[k].source = id
                                    /\ g.edges[k].target = videoNodeId(v)

\* two documents that share one entity of five: a moderate edge
C20_Witness ==
    /\ Built
    /\ \E k \in edgesOfKind(graph.body, "document-similarity") :
           /\ graph.body.edges[k].type = "moderate"
           /\ graph.body.edges[k].sharedEntities = 1

(***************************************************************************)
(* buildGraphFromVideos applied to tables whose documents have several key *)
(* points that mention the same entity                                     *)
(***************************************************************************)
MergeCatalog == {"React version", "React Api"}

\* the tables of these runs: each row has one key point or more
MergeTables ==
    UNION {{[i \in 1..n |-> Row(i, Text("react hooks tutorial"), ss[i])] :
               ss \in [1..n ->
                          UNION {{JsonText(JsonObject(KeyPointList(
                                      [i \in 1..k |-> StrItem(kps[i])]))) :
                                    kps \in [1..k -> MergeCatalog]} :
                                 k \in 1..MaxKeyPoints}]} :
           n \in 0..MaxVideos}

MergeInit ==
    /\ page = NoPage
    /\ videos \in MergeTables
    /\ graph = None
    /\ calls = 0
    /\ cache = EmptyCache
    /\ ResolverIdle
    /\ RebuildIdle

SpecMerge == MergeInit /\ [][GraphNext]_vars

\* the mention descriptions an entity has accumulated, in the order appended
descriptionList(entity) == splitBar(entity.description, 1, "")

\* C22: the accumulated description of an entity of a snapshot never holds the
\* same mention description (key-point text) more than once, after the merge
\* per document and the merge across documents
C22_DescriptionHasNoRepeat ==
    Built =>
        \A k \in entityNodesOf(graph.body) :
            LET pieces == descriptionList(graph.body.nodes[k])
            IN  \A i, j \in DOMAIN pieces : pieces[i] = pieces[j] => i = j

(***************************************************************************)
(* Specification of buildRelationships between videos that have key        *)
(* points: the videos of a table are processed one after another           *)
(***************************************************************************)
\* what processVideo stores for the videos of these runs: key points with
\* words in common, some of them stop words of findCommonThemes
ThemeKeyPoints ==
    {<<"React hooks">>,
     <<"react hooks state props context reducer effects guide">>,
     <<"hooks">>,
     <<"hooks state state state state state">>,
     <<"this that">>,
     <<"this those">>,
     <<"with from">>,
     <<"React hooks", "this that">>}

ThemeContents ==
    {<<Text("react tutorial"),
       JsonText(JsonObject(KeyPointList([i \in DOMAIN kps |-> StrItem(kps[i])])))>> :
        kps \in ThemeKeyPoints}

ThemesNext == \E id \in VideoIds, content \in ThemeContents : ProcessVideo(id, content)

SpecThemes == LibraryInit /\ [][ThemesNext]_vars

\* v1 = v2 for similarities kept as their squares
sameSimilarity(v1, v2) == v1.num * v2.den = v2.num * v1.den

\* the key points of an index entry as one lowercased text
keyPointsText(entry) == toLowerCase(joinItems(entry.keyPoints.items))

\* C24: when the relationships of a video with key points are built, then for
\* every other indexed video with key points a relationship is pushed iff
\* the reported similarity max(cosine, 0.2 x commonThemes) is > 0.2 or there
\* is a common theme; it is strong exactly when the reported similarity is
\* > 0.5 or there are 2 common themes or more, moderate otherwise; and its
\* reported similarity is >= 0.2
C24_KeyPointTiering ==
    [][\A id \in VideoIds :
           (kg'[id] # kg[id])
               => \A k \in DOMAIN rag'.index :
                    (/\ rag'.index[k].id # id
                     /\ kpLength(get(rag'.index, id).keyPoints) > 0
                     /\ kpLength(rag'.index[k].keyPoints) > 0)
                        => \A cosine \in {cosineSimilarity(
                                   generateSimpleEmbedding(keyPointsText(get(rag'.index, id))),
                                   generateSimpleEmbedding(keyPointsText(rag'.index[k])))} :
                           \A themes \in {Cardinality(
                                   Range(extractKeywords(get(rag'.index, id).keyPoints.items))
                                   \cap Range(extractKeywords(rag'.index[k].keyPoints.items)))} :
                           LET reported == maxSimilarity(cosine, fifths(themes))
                               found == {i \in DOMAIN kg'[id].relationships :
                                           kg'[id].relationships[i].targetVideoId
                                               = rag'.index[k].id}
                           IN  /\ Cardinality(found) <= 1
                               /\ found # {} <=> (exceeds(reported, 2, 10) \/ themes >= 1)
                               /\ \A i \in found :
                                      LET rel == kg'[id].relationships[i]
                                      IN  /\ sameSimilarity(rel.similarity, reported)
                                          /\ rel.type \in {"strong", "moderate"}
                                          /\ rel.type = "strong"
                                                <=> (exceeds(reported, 5, 10) \/ themes >= 2)
                                          /\ ~greater(fifths(1), rel.similarity)]_vars

\* a stored relationship that is strong by its two common themes, with a
\* cosine, and so a reported similarity, that is not > 0.5
C24_Witness ==
    \E rel \in storedRelationships :
        /\ rel.type = "strong"
        /\ Len(rel.commonThemes) >= 2
        /\ ~exceeds(rel.similarity, 5, 10)

(***************************************************************************)
(* The projections of the graph page, against the base snapshot loaded     *)
(***************************************************************************)
\* the views of the page made with a projection that did not throw
viewsOf(graphType) ==
    {page.views[k].view :
        k \in {j \in DOMAIN page.views : /\ page.views[j].graphType = graphType
                                         /\ ~page.views[j].threw}}

\* the entity nodes of a snapshot, and the documents an entity is associated
\* with: the videos it was extracted from
entitiesIn(g) == {g.nodes[k] : k \in entityNodesOf(g)}
documentsOf(entity) == Range(videoIdsOf(entity))

\* the edges of a view between two nodes, in either direction
edgesBetween(view, id1, id2) ==
    {k \in DOMAIN view.edges : {view.edges[k].source, view.edges[k].target} = {id1, id2}}

\* C25: the co-occurrence projection has, for every two distinct entities of
\* the base snapshot, exactly one edge iff a document is associated with both
\* of them; the count of the edge is the number of those documents and its
\* normalized weight is min(count/3, 1); no edge joins an entity to itself
C25_CooccurrenceCounts ==
    (page.loaded /\ page.fetched.ok) =>
        \A view \in viewsOf("cooccurrence") :
            /\ \A e1, e2 \in entitiesIn(page.fetched) :
                   e1.id # e2.id =>
                       LET both == documentsOf(e1) \cap documentsOf(e2)
                           found == edgesBetween(view, e1.id, e2.id)
                           count == Cardinality(both)
                       IN  /\ Cardinality(found) = IF both # {} THEN 1 ELSE 0
                           /\ \A k \in found :
                                  /\ view.edges[k].weight = count
                                  /\ view.edges[k].similarity
                                         = [num |-> IF count > 3 THEN 3 ELSE count,
                                            den |-> 3]
            /\ \A k \in DOMAIN view.edges : view.edges[k].source # view.edges[k].target

\* the projections applied to snapshots of tables whose key points have words
\* in common
SpecPruning == SharedInit /\ [][ProjectionNext]_vars

\* C26: every node of the co-occurrence projection is an entity node of the
\* base snapshot and an endpoint of a projected edge, and both endpoints of
\* every projected edge are nodes of the projection; an entity mentioned in one
\* document only, in which no other entity is mentioned, is not a node of it
C26_NoIsolatedNodes ==
    (page.loaded /\ page.fetched.ok) =>
        \A view \in viewsOf("cooccurrence") :
            /\ \A k \in DOMAIN view.nodes :
                   /\ view.nodes[k].type # "video"
                   /\ view.nodes[k] \in entitiesIn(page.fetched)
                   /\ \E e \in DOMAIN view.edges :
                          view.nodes[k].id \in {view.edges[e].source, view.edges[e].target}
            /\ \A e \in DOMAIN view.edges :
                   /\ view.edges[e].source \in nodeIds(view)
                   /\ view.edges[e].target \in nodeIds(view)
            /\ \A entity \in entitiesIn(page.fetched) :
                   (/\ Cardinality(documentsOf(entity)) = 1
                    /\ \A other \in entitiesIn(page.fetched) :
                           other.id # entity.id
                               => documentsOf(other) \cap documentsOf(entity) = {})
                       => entity.id \notin nodeIds(view)

\* a co-occurrence projection with edges that leaves out an entity of the base
\* snapshot
C26_Witness ==
    /\ page.loaded
    /\ page.fetched.ok
    /\ \E view \in viewsOf("cooccurrence") :
           /\ view.edges # <<>>
           /\ \E entity \in entitiesIn(page.fetched) : entity.id \notin nodeIds(view)

\* the ordering key of a video node: a node has no createdAt, so its id,
\* compared with localeCompare
orderingKey(node) == node.id
keyBefore(id1, id2) == lessFrom(CollationOrder, id1, id2, 1)

\* the sequence edges of a view in the order pushed, and its other edges
sequenceEdgesOf(view) == SelectSeq(view.edges, LAMBDA edge : edge.type = "sequence")
retainedEdgesOf(view) == SelectSeq(view.edges, LAMBDA edge : edge.type # "sequence")

\* a base edge that joins a document and an entity
joinsDocumentAndEntity(g, edge) ==
    LET documents == {g.nodes[k].id : k \in videoNodesOf(g)}
        entityIds == {g.nodes[k].id : k \in entityNodesOf(g)}
    IN  \/ edge.source \in documents /\ edge.target \in entityIds
        \/ edge.target \in documents /\ edge.source \in entityIds

\* C27: for a base snapshot with n document nodes the sequence projection has
\* max(n-1, 0) sequence edges, each of weight 0.5, that form one chain through
\* all document nodes in ascending order of the ordering key; its nodes are the
\* nodes of the base snapshot; its other edges are the base edges that join a
\* document and an entity, unchanged, and no other base edge
C27_SequenceChain ==
    (page.loaded /\ page.fetched.ok) =>
        \A view \in viewsOf("sequence") :
            LET base == page.fetched
                documents == {orderingKey(base.nodes[k]) : k \in videoNodesOf(base)}
                n == Cardinality(videoNodesOf(base))
                chain == sequenceEdgesOf(view)
            IN  /\ Len(chain) = IF n > 0 THEN n - 1 ELSE 0
                /\ \A k \in DOMAIN chain :
                       /\ chain[k].similarity = [num |-> 1, den |-> 2]
                       /\ chain[k].source \in documents
                       /\ chain[k].target \in documents
                       /\ keyBefore(chain[k].source, chain[k].target)
                       /\ k < Len(chain) => chain[k].target = chain[k + 1].source
                /\ n > 1 => {chain[k].source : k \in DOMAIN chain}
                                \cup {chain[k].target : k \in DOMAIN chain} = documents
                /\ Range(view.nodes) = Range(base.nodes)
                /\ Len(view.nodes) = Len(base.nodes)
                /\ retainedEdgesOf(view)
                       = SelectSeq(base.edges,
                                   LAMBDA edge : joinsDocumentAndEntity(base, edge))

\* a sequence projection of a base snapshot whose document nodes are not in
\* the order of their keys: it has a sequence edge, retains an edge between a
\* document and an entity, and drops an edge of the base snapshot
C27_Witness ==
    /\ page.loaded
    /\ page.fetched.ok
    /\ \E j, k \in videoNodesOf(page.fetched) :
           j < k /\ keyBefore(page.fetched.nodes[k].id, page.fetched.nodes[j].id)
    /\ \E view \in viewsOf("sequence") :
           /\ sequenceEdgesOf(view) # <<>>
           /\ retainedEdgesOf(view) # <<>>
           /\ Len(retainedEdgesOf(view)) < Len(page.fetched.edges)

(***************************************************************************)
(* The response cache and failed requests                                  *)
(***************************************************************************)
\* the body GET /api/graph/relationships/:id or GET /api/graph sends when the
\* request fails: res.status(404).json({ error }) of the handler, or the json
\* of the error handling middleware
failedRelationships(body) == body.error # ""
failedGraph(body) == ~body.ok

\* C28: the cache never holds the response of a failed request and never
\* replays one: the body kept for a URL is the body of a successful handler
\* response, and a response with the status 200 has the body of one
C28_FailuresNotCached ==
    /\ \A id \in VideoIds :
           cache[relationshipsUrl(id)].present
               => ~failedRelationships(cache[relationshipsUrl(id)].body)
    /\ \A categoryId \in {""} \cup Range(Categories) :
           cache[graphUrl(categoryId)].present
               => ~failedGraph(cache[graphUrl(categoryId)].body)
    /\ (response.op = "relationships" /\ response.status = 200)
           => ~failedRelationships(response.body)

(***************************************************************************)
(* Specification of the graph page: the user changes the category and the  *)
(* graph type while loads are in flight, the responses arrive in any order *)
(***************************************************************************)
\* graphData: null (useState<any>(null)) or what setGraphData was given
NoGraphData == [isNull |-> TRUE, value |-> Failure]
GraphData(value) == [isNull |-> FALSE, value |-> value]

\* a call of loadData whose response has not arrived: the closure holds the
\* selectedCategory and the currentGraphType of the render that started it
Load(n, selectedCategory, currentGraphType) ==
    [n |-> n, selectedCategory |-> selectedCategory, currentGraphType |-> currentGraphType]

\* the page once the effects of the mount have run: the graph type is the one
\* saved in localStorage or 'knowledge', no category is selected, and the
\* effect of lines 64-68 has called loadData
PageInit ==
    /\ videos \in ProjectionTables
    /\ \E savedGraphType \in GraphTypes :
           page = [selectedCategory |-> "", currentGraphType |-> savedGraphType,
                   graphData |-> NoGraphData,
                   inFlight |-> {Load(1, "", savedGraphType)}]
    /\ calls = 1
    /\ graph = None
    /\ cache = EmptyCache
    /\ ResolverIdle
    /\ RebuildIdle

\* the category is changed: setSelectedCategory, and the effect calls loadData
SelectCategory(categoryId) ==
    /\ calls < MaxCalls
    /\ categoryId # page.selectedCategory
    /\ page' = [page EXCEPT
                   !.selectedCategory = categoryId,
                   !.inFlight = @ \cup {Load(calls + 1, categoryId, page.currentGraphType)}]
    /\ calls' = calls + 1
    /\ UNCHANGED <<videos, graph, cache, resolverVars, rebuildVars>>

\* handleGraphTypeChange(type) (lines 242-249): the graph shown is transformed
\* as it is, and the effect calls loadData for the new type
handleGraphTypeChange(type) ==
    /\ calls < MaxCalls
    /\ type # page.currentGraphType
    /\ \E made \in {transformGraphData(page.graphData.value, type)} :
           page' = [page EXCEPT
                       !.currentGraphType = type,
                       !.graphData = IF page.graphData.isNull \/ made.threw THEN @
                                     ELSE GraphData(made.view),
                       !.inFlight = @ \cup {Load(calls + 1, page.selectedCategory, type)}]
    /\ calls' = calls + 1
    /\ UNCHANGED <<videos, graph, cache, resolverVars, rebuildVars>>

\* the response of a load arrives (lines 203-212): GET /api/graph is answered
\* behind the cache, the snapshot is transformed for the graph type of the
\* closure and becomes graphData; an error status or a throw is caught and
\* graphData stays
LoadArrives(n) ==
    \E load \in {l \in page.inFlight : l.n = n} :
    /\ LET url == graphUrl(load.selectedCategory)
           found == findMany(videos, load.selectedCategory)
       IN  \E sent \in {IF cache[url].present
                        THEN [status |-> 200, body |-> cache[url].body]
                        ELSE graphHandler(videos, load.selectedCategory)} :
           \E made \in {transformGraphData(sent.body, load.currentGraphType)} :
               /\ graph' = [op |-> "get", where |-> load.selectedCategory,
                            input |-> [i \in 1..Len(found) |-> found[i].id],
                            status |-> sent.status, body |-> sent.body]
               /\ cache' = [cache EXCEPT ![url] = Entry(sent.body)]
               /\ page' = [page EXCEPT
                              !.graphData = IF sent.status = 200 /\ ~made.threw
                                            THEN GraphData(made.view) ELSE @,
                              !.inFlight = @ \ {load}]
    /\ UNCHANGED <<videos, calls, resolverVars, rebuildVars>>

PageNext ==
    \/ \E categoryId \in {""} \cup Range(Categories) : SelectCategory(categoryId)
    \/ \E type \in GraphTypes : handleGraphTypeChange(type)
    \/ \E n \in 1..MaxCalls : LoadArrives(n)

SpecPage == PageInit /\ [][PageNext]_vars

PostProcess(id, content) ==
    /\ calls < MaxCalls
    /\ rebuild.pc # "running"
    /\ \E k \in DOMAIN videos :
           /\ videos[k].id = id
           /\ ~videos[k].transcription.isNull
           /\ \E row \in {Row(id, content[1], content[2])} :
              \E processed \in {processOne([rag |-> rag, kg |-> kg], row)} :
                  /\ videos' = [videos EXCEPT ![k] = row]
                  /\ rag' = processed.rag
                  /\ kg' = processed.kg
    /\ calls' = calls + 1
    /\ response' = [op |-> "process", status |-> 200, id |-> id,
                    body |-> "Processing started"]
    /\ UNCHANGED <<page, graph, cache, resolverVars, rebuild>>

ReprocessNext ==
    \/ \E id \in VideoIds, content \in LibraryContents : ProcessVideo(id, content)
    \/ \E id \in VideoIds, content \in LibraryContents : PostProcess(id, content)

SpecReprocess == LibraryInit /\ [][ReprocessNext]_vars

\* processVideo has run for the video in this step: for the first time, or
\* again after POST /api/videos/:id/process
processedInStep(id) ==
    \/ /\ findUnique(videos, id) # <<>>
       /\ findUnique(videos, id)[1].transcription.isNull
       /\ ~findUnique(videos', id)[1].transcription.isNull
    \/ /\ calls' = calls + 1
       /\ response'.op = "process"
       /\ response'.id = id

\* C30: when processVideo has indexed a video and built its relationships, the
\* relationships stored for the video are the relationships built in that
\* run, also when the video already had a knowledgeGraph row
C30_StoredIsComputed ==
    [][\A id \in VideoIds :
           processedInStep(id)
               => \A built \in {buildRelationships(
                                    rag', id, parsedSummary(findUnique(videos', id)[1]))} :
                      (has(rag'.embeddings, id) /\ ~built.threw)
                          => kg'[id] = GraphRow(built.relationships)]_vars

====
